---- MODULE Spec2Model ----
(***************************************************************************)
(* A model of the decimal BigInt of struct/big_int.h (the variant that is  *)
(* compiled, "#if 1", lines 24-385): the string and native-integer         *)
(* constructors, ToString, the comparison operators, Add / Sub / Multiply  *)
(* (schoolbook and Karatsuba) and the signed operators built on them.      *)
(*                                                                         *)
(* A BigInt is a record [val |-> limbs, sig |-> 0 or 1]; val is the        *)
(* std::vector<T>, first element = val[0] of the source (TLA+ sequences    *)
(* are 1-based, so val[i] of the source is val[i+1] here).  A C string is  *)
(* the sequence of its character codes.                                    *)
(*                                                                         *)
(* The source packs 9 decimal digits into a limb (base = 1e9).  Products   *)
(* of such limbs do not fit TLC's 32-bit integers, so the number of digits *)
(* per limb is the bound LimbDigits; every place where the source writes   *)
(* 9 (or 1e9) is written with LimbDigits (or base) here.                   *)
(***************************************************************************)
EXTENDS Integers, Sequences, FiniteSets

VARIABLES s, t, x, a, b, c, res, out, flags, fault, src, op, steps,
          tree, keys, call, ft, elems

vars == <<s, t, x, a, b, c, res, out, flags, fault, src, op, steps,
          tree, keys, call, ft, elems>>

(* The variables of the big-integer harnesses and those of the container   *)
(* harnesses (red-black trees, Fenwick tree).  A harness of one family     *)
(* leaves the other family's variables at rest.                            *)
bigIntVars == <<s, t, x, a, b, c, res, out, flags, fault, src, op, steps>>

structVars == <<tree, keys, call, ft, elems>>

StructIdle ==
    /\ tree = "none" /\ keys = {} /\ call = "none"
    /\ ft = "none" /\ elems = <<>>

(***************************************************************************)
(* Bounds of the model.                                                    *)
(***************************************************************************)
LimbDigits == 2      \* decimal digits per limb (9 in the source)
MaxStrLen == 4       \* longest input string
MaxLimbs == 2        \* longest operand of the value-checked +, - and comparisons
MaxMulLimbs == 4     \* longest operand of *
MaxSteps == 2        \* longest sequence of operators applied to one value
UintBits == 3        \* width of PowInt's unsigned exponent (uint32_t in the source)

(***************************************************************************)
(* Program constants.                                                      *)
(***************************************************************************)
CharMinus == 45      \* '-'
CharZero == 48       \* '0'

RECURSIVE Pow10(_)
Pow10(k) == IF k = 0 THEN 1 ELSE 10 * Pow10(k - 1)

base == Pow10(LimbDigits)

(***************************************************************************)
(* C++ integer division and remainder (truncation toward zero).            *)
(***************************************************************************)
CDiv(u, v) == IF u >= 0 THEN u \div v ELSE -((-u) \div v)

CMod(u, v) == u - v * CDiv(u, v)

Max(u, v) == IF u > v THEN u ELSE v

Reverse(q) == [i \in 1..Len(q) |-> q[Len(q) + 1 - i]]

\* A default-constructed BigInt: val(1), sig = 0.
BigIntDefault == [val |-> <<0>>, sig |-> 0]

(***************************************************************************)
(* The constructor from a C string.                                        *)
(***************************************************************************)
\* v = v * 10 + (s[j] - '0') for j = from .. to (1-based, inclusive), v starting at v0
RECURSIVE Accumulate(_, _, _, _)
Accumulate(str, from, to, v0) ==
    IF from > to THEN v0
    ELSE Accumulate(str, from + 1, to, v0 * 10 + (str[from] - CharZero))

BigIntFromString(str) ==
    LET neg == Len(str) > 0 /\ str[1] = CharMinus
        d == IF neg THEN Tail(str) ELSE str
        n == Len(d)
    IN IF n = 0 THEN [val |-> <<0>>, sig |-> 0]
       ELSE LET i == n % LimbDigits
                v == Accumulate(d, 1, i, 0)
                head == IF v # 0 THEN <<v>> ELSE <<>>
                groups == [k \in 1..((n - i) \div LimbDigits) |->
                              Accumulate(d, i + (k - 1) * LimbDigits + 1,
                                         i + k * LimbDigits, 0)]
            IN [val |-> Reverse(head \o groups), sig |-> IF neg THEN 1 ELSE 0]

(***************************************************************************)
(* BigInt(int64_t).                                                        *)
(***************************************************************************)
\* for (; x; x /= base) val.push_back(x % base): the limbs in push order
RECURSIVE PushLimbs(_)
PushLimbs(v) == IF v = 0 THEN <<>> ELSE <<CMod(v, base)>> \o PushLimbs(CDiv(v, base))

BigIntFromInt(v) ==
    [val |-> Reverse(PushLimbs(IF v < 0 THEN -v ELSE v)),
     sig |-> IF v < 0 THEN 1 ELSE 0]

(***************************************************************************)
(* ToString.                                                               *)
(***************************************************************************)
\* the decimal digits of v >= 0
RECURSIVE Decimal(_)
Decimal(v) == IF v < 10 THEN <<CharZero + v>>
              ELSE Decimal(v \div 10) \o <<CharZero + (v % 10)>>

\* std::to_string(v)
ToStr(v) == IF v < 0 THEN <<CharMinus>> \o Decimal(-v) ELSE Decimal(v)

ZeroPad(q, w) == [i \in 1..(w - Len(q)) |-> CharZero] \o q

\* snprintf(s, 10, "%09d", v): the sign, zero padding to the field width, and at
\* most that many characters written
Field(v) ==
    LET full == IF v < 0 THEN <<CharMinus>> \o ZeroPad(Decimal(-v), LimbDigits - 1)
                ELSE ZeroPad(Decimal(v), LimbDigits)
    IN SubSeq(full, 1, LimbDigits)

RECURSIVE Fields(_, _)
Fields(val, i) == IF i = 0 THEN <<>> ELSE Field(val[i]) \o Fields(val, i - 1)

\* defined for a non-empty val only (val.back() of an empty vector)
ToString(v) ==
    (IF v.sig # 0 THEN <<CharMinus>> ELSE <<>>)
        \o ToStr(v.val[Len(v.val)]) \o Fields(v.val, Len(v.val) - 1)

(***************************************************************************)
(* Trim, Sub, Add.                                                         *)
(***************************************************************************)
\* while (q.size() > keep && q.back() == 0) q.pop_back()
RECURSIVE PopZeros(_, _)
PopZeros(q, keep) ==
    IF Len(q) > keep /\ q[Len(q)] = 0 THEN PopZeros(SubSeq(q, 1, Len(q) - 1), keep)
    ELSE q

\* Trim without "sig = 0" when the value is zero
TrimKeepSign(v) ==
    LET q == PopZeros(v.val, 0)
    IN IF q = <<>> THEN [val |-> <<0>>, sig |-> v.sig] ELSE [val |-> q, sig |-> v.sig]

\* Trim without the loop that drops the most-significant zero limbs
TrimKeepZeros(v) ==
    IF PopZeros(v.val, 0) = <<>> THEN [val |-> <<0>>, sig |-> 0] ELSE v

Trim(v) ==
    LET q == PopZeros(v.val, 0)
    IN IF q = <<>> THEN [val |-> <<0>>, sig |-> 0] ELSE [val |-> q, sig |-> v.sig]

\* the loop of Sub from index i (0-based) with the running carry
RECURSIVE SubLoop(_, _, _, _)
SubLoop(p, q, i, carry) ==
    IF i >= Len(p) THEN <<>>
    ELSE LET cy == carry + (p[i + 1] - (IF i < Len(q) THEN q[i + 1] ELSE 0))
         IN IF cy < 0 THEN <<cy + base>> \o SubLoop(p, q, i + 1, -1)
            ELSE <<cy>> \o SubLoop(p, q, i + 1, 0)

Sub(p, q) == PopZeros(SubLoop(p, q, 0, 0), 1)

\* AddLoop with the carry dropped: carry = 0 where the source divides by base
RECURSIVE AddLoopNoCarry(_, _, _, _, _)
AddLoopNoCarry(p, q, as, i, carry) ==
    IF i >= Max(Len(p), Len(q))
    THEN IF carry # 0 THEN <<carry>> ELSE <<>>
    ELSE LET cy == carry + (IF i < Len(p) THEN p[i + 1] ELSE 0)
                         + (IF i + as < Len(q) THEN q[i + as + 1] ELSE 0)
         IN <<CMod(cy, base)>> \o AddLoopNoCarry(p, q, as, i + 1, 0)

\* the loop of Add from index i (0-based) with the running carry, and the limb
\* pushed after it when a carry is left
RECURSIVE AddLoop(_, _, _, _, _)
AddLoop(p, q, as, i, carry) ==
    IF i >= Max(Len(p), Len(q))
    THEN IF carry # 0 THEN <<carry>> ELSE <<>>
    ELSE LET cy == carry + (IF i < Len(p) THEN p[i + 1] ELSE 0)
                         + (IF i + as < Len(q) THEN q[i + as + 1] ELSE 0)
         IN <<CMod(cy, base)>> \o AddLoop(p, q, as, i + 1, CDiv(cy, base))

\* memcpy(ans.data(), b, sizeof(T) * as) reads as limbs of q whatever q's length:
\* a limb read past the end of q is not defined by the language, and is g here
Add(p, q, as, g) ==
    [i \in 1..as |-> IF i <= Len(q) THEN q[i] ELSE g] \o AddLoop(p, q, as, 0, 0)

(***************************************************************************)
(* Multiply.                                                               *)
(***************************************************************************)
\* one schoolbook row: p times the limb d, from index i with the running carry
RECURSIVE MulRow(_, _, _, _)
MulRow(p, d, i, carry) ==
    IF i >= Len(p)
    THEN IF carry # 0 THEN <<carry>> ELSE <<>>
    ELSE LET cy == carry + p[i + 1] * d
         IN <<CMod(cy, base)>> \o MulRow(p, d, i + 1, CDiv(cy, base))

RECURSIVE Multiply(_, _, _)
Multiply(p0, q0, g) ==
    LET p1 == PopZeros(p0, 0)
        q1 == PopZeros(q0, 0)
        p == IF Len(p1) < Len(q1) THEN q1 ELSE p1
        q == IF Len(p1) < Len(q1) THEN p1 ELSE q1
        al == Len(p)
        bl == Len(q)
    IN IF bl = 0 THEN <<0>>
       ELSE IF bl <= 2
       THEN LET res0 == MulRow(p, q[1], 0, 0)
            IN IF bl = 1 THEN res0
               ELSE Add(MulRow(p, q[2], 0, 0), res0, 1, g)
       ELSE LET l == al \div 2
                ha == al - l
                hb == bl - l
            IN IF hb <= 0
               THEN LET ah_bl == Multiply(SubSeq(p, l + 1, al), q, g)
                        al_bl == Multiply(SubSeq(p, 1, l), q, g)
                    IN Add(ah_bl, al_bl, l, g)
               ELSE LET ah_x_bh == Multiply(SubSeq(p, l + 1, al), SubSeq(q, l + 1, bl), g)
                        al_x_bl == Multiply(SubSeq(p, 1, l), SubSeq(q, 1, l), g)
                        ah_x_bh_P_al_x_bl == Add(ah_x_bh, al_x_bl, 0, g)
                        ah_p_al == Add(SubSeq(p, l + 1, al), SubSeq(p, 1, l), 0, g)
                        bh_p_bl == Add(SubSeq(q, l + 1, bl), SubSeq(q, 1, l), 0, g)
                        ah_p_al_X_bh_p_bl == Multiply(ah_p_al, bh_p_bl, g)
                        temp == Add(Sub(ah_p_al_X_bh_p_bl, ah_x_bh_P_al_x_bl),
                                    al_x_bl, l, g)
                    IN Add(ah_x_bh, temp, l * 2, g)

\* Whether every limb that Multiply(p0, q0) reads lies inside the vector it is
\* read from.  The indexed reads of Add, Sub and the schoolbook rows are guarded
\* by the lengths (i < al, i + as < bl, i < b.size()); the one unguarded read is
\* the memcpy of Add, which reads the limbs 0 .. as-1 of its second operand.
\* While every read is in bounds the limbs do not depend on g, so the operands
\* of each call are computed with g = 0.
RECURSIVE MultiplyInBounds(_, _)
MultiplyInBounds(p0, q0) ==
    LET p1 == PopZeros(p0, 0)
        q1 == PopZeros(q0, 0)
        p == IF Len(p1) < Len(q1) THEN q1 ELSE p1
        q == IF Len(p1) < Len(q1) THEN p1 ELSE q1
        al == Len(p)
        bl == Len(q)
    IN IF bl = 0 THEN TRUE
       ELSE IF bl <= 2
       THEN bl = 1 \/ 1 <= Len(MulRow(p, q[1], 0, 0))
       ELSE LET l == al \div 2
                hb == bl - l
            IN IF hb <= 0
               THEN /\ MultiplyInBounds(SubSeq(p, l + 1, al), q)
                    /\ MultiplyInBounds(SubSeq(p, 1, l), q)
                    /\ l <= Len(Multiply(SubSeq(p, 1, l), q, 0))
               ELSE LET ah_x_bh == Multiply(SubSeq(p, l + 1, al), SubSeq(q, l + 1, bl), 0)
                        al_x_bl == Multiply(SubSeq(p, 1, l), SubSeq(q, 1, l), 0)
                        ah_p_al == Add(SubSeq(p, l + 1, al), SubSeq(p, 1, l), 0, 0)
                        bh_p_bl == Add(SubSeq(q, l + 1, bl), SubSeq(q, 1, l), 0, 0)
                        temp == Add(Sub(Multiply(ah_p_al, bh_p_bl, 0),
                                        Add(ah_x_bh, al_x_bl, 0, 0)),
                                    al_x_bl, l, 0)
                    IN /\ MultiplyInBounds(SubSeq(p, l + 1, al), SubSeq(q, l + 1, bl))
                       /\ MultiplyInBounds(SubSeq(p, 1, l), SubSeq(q, 1, l))
                       /\ MultiplyInBounds(ah_p_al, bh_p_bl)
                       /\ l <= Len(al_x_bl)
                       /\ l * 2 <= Len(temp)

(***************************************************************************)
(* The comparison operators.                                               *)
(***************************************************************************)
\* bool ^ sig
\* the comparison without "^ sig"
XorSigIgnored(cond, sig) == cond

XorSig(cond, sig) == IF sig # 0 THEN ~cond ELSE cond

\* for (size_t i = val.size(); i--;) if (val[i] != b.val[i]): the largest index
\* (1-based) at which the two differ, 0 when there is none
RECURSIVE FirstDiff(_, _, _)
FirstDiff(p, q, i) ==
    IF i = 0 THEN 0 ELSE IF p[i] # q[i] THEN i ELSE FirstDiff(p, q, i - 1)

GreaterEq(u, v) ==
    IF u.sig # v.sig THEN u.sig < v.sig
    ELSE IF Len(u.val) # Len(v.val) THEN XorSig(Len(u.val) > Len(v.val), u.sig)
    ELSE LET i == FirstDiff(u.val, v.val, Len(u.val))
         IN IF i # 0 THEN XorSig(u.val[i] > v.val[i], u.sig) ELSE TRUE

\* operator> ending in "return true", as operator>= does
GreaterAsGreaterEq(u, v) == GreaterEq(u, v)

Greater(u, v) ==
    IF u.sig # v.sig THEN u.sig < v.sig
    ELSE IF Len(u.val) # Len(v.val) THEN XorSig(Len(u.val) > Len(v.val), u.sig)
    ELSE LET i == FirstDiff(u.val, v.val, Len(u.val))
         IN IF i # 0 THEN XorSig(u.val[i] > v.val[i], u.sig) ELSE FALSE

Less(u, v) == Greater(v, u)

LessEq(u, v) == GreaterEq(v, u)

Equal(u, v) ==
    IF u.sig # v.sig THEN FALSE
    ELSE IF Len(u.val) # Len(v.val) THEN FALSE
    ELSE FirstDiff(u.val, v.val, Len(u.val)) = 0

(***************************************************************************)
(* operator+, operator-, operator*.                                        *)
(***************************************************************************)
\* temp.sig ^= 1
FlipSig(v) == [val |-> v.val, sig |-> 1 - v.sig]

RECURSIVE Plus(_, _), Minus(_, _)
\* operator- without "ans.sig ^= 1" after the operands are exchanged
MinusNoFlip(u, v) ==
    IF u.sig # v.sig THEN Plus(u, FlipSig(v))
    ELSE IF (u.sig = 0 /\ Less(u, v)) \/ (u.sig = 1 /\ Greater(u, v))
    THEN Minus(v, u)
    ELSE Trim([val |-> Sub(u.val, v.val), sig |-> u.sig])

Plus(u, v) ==
    IF u.sig # v.sig THEN Minus(u, FlipSig(v))
    ELSE [val |-> Add(u.val, v.val, 0, 0), sig |-> u.sig]

Minus(u, v) ==
    IF u.sig # v.sig THEN Plus(u, FlipSig(v))
    ELSE IF (u.sig = 0 /\ Less(u, v)) \/ (u.sig = 1 /\ Greater(u, v))
    THEN FlipSig(Minus(v, u))
    ELSE Trim([val |-> Sub(u.val, v.val), sig |-> u.sig])

Times(u, v, g) == Trim([val |-> Multiply(u.val, v.val, g), sig |-> IF u.sig # v.sig THEN 1 ELSE 0])

(***************************************************************************)
(* The inputs the model draws.                                             *)
(***************************************************************************)
SeqsUpTo(S, n) == UNION {[1..k -> S] : k \in 0..n}

\* the characters of the input strings: '-', '0', '1', '9'
Alphabet == {CharMinus, CharZero, CharZero + 1, CharZero + 9}

Strings == SeqsUpTo(Alphabet, MaxStrLen)

IsDigit(ch) == ch >= CharZero /\ ch <= CharZero + 9

\* -?[0-9]+
ValidFormat(str) ==
    LET d == IF Len(str) > 0 /\ str[1] = CharMinus THEN Tail(str) ELSE str
    IN Len(d) > 0 /\ \A i \in 1..Len(d) : IsDigit(d[i])

ValidStrings == {str \in Strings : ValidFormat(str)}

\* native integers of zero, one, two and three limbs, of both signs
IntInputs ==
    LET pos == {1, base - 1, base, base + 2, base * base + 2 * base + 3}
    IN {0} \cup pos \cup {-v : v \in pos}

LimbVals == {0, 1, 2, base \div 2, base - 2, base - 1}

\* every vector the string constructor can leave in val, with limbs of LimbVals:
\* the empty one ("0"), and any sequence of limbs (a string of whole groups)
Reps(n) == {[val |-> q, sig |-> g] : q \in SeqsUpTo(LimbVals, n), g \in {0, 1}}

\* the canonical values among them
IsCanonical(v) ==
    /\ Len(v.val) >= 1
    /\ \A i \in 1..Len(v.val) : v.val[i] >= 0 /\ v.val[i] < base
    /\ (v.val[Len(v.val)] = 0 => v.val = <<0>>)
    /\ (v.val = <<0>> => v.sig = 0)

Canonicals(n) == {v \in Reps(n) : IsCanonical(v)}

\* what a limb read past the end of a vector may hold
Garbage == {0, 1, base}

NoFlags ==
    [gt_ab |-> FALSE, ge_ab |-> FALSE, lt_ab |-> FALSE, le_ab |-> FALSE,
     eq_ab |-> FALSE, lt_bc |-> FALSE, lt_ac |-> FALSE]

(***************************************************************************)
(* Construction and serialization: one value a, built from the string s,   *)
(* from the native integer x or by default, then a - a or a * 0 of it,     *)
(* then ToString of the last value.                                        *)
(***************************************************************************)
InitCodec ==
    /\ s \in Strings /\ x \in IntInputs /\ t = <<>>
    /\ a = BigIntDefault /\ b = BigIntDefault /\ c = BigIntDefault
    /\ res = BigIntDefault /\ out = <<>> /\ flags = NoFlags
    /\ fault = "none" /\ src = "none" /\ op = "init" /\ steps = 0 /\ StructIdle

ConstructString ==
    /\ op = "init"
    /\ a' = BigIntFromString(s)
    /\ res' = BigIntFromString(s)
    /\ src' = "string" /\ op' = "constructed"
    /\ UNCHANGED <<s, t, x, b, c, out, flags, fault, steps, structVars>>

ConstructInt ==
    /\ op = "init"
    /\ a' = BigIntFromInt(x)
    /\ res' = BigIntFromInt(x)
    /\ src' = "int" /\ op' = "constructed"
    /\ UNCHANGED <<s, t, x, b, c, out, flags, fault, steps, structVars>>

ConstructDefault ==
    /\ op = "init"
    /\ a' = BigIntDefault
    /\ res' = BigIntDefault
    /\ src' = "default" /\ op' = "constructed"
    /\ UNCHANGED <<s, t, x, b, c, out, flags, fault, steps, structVars>>

Printed == out # <<>> \/ fault # "none"

\* res = a - a
MinusSelf ==
    /\ op = "constructed" /\ ~Printed
    /\ res' = Minus(a, a)
    /\ op' = "minus_self"
    /\ UNCHANGED <<s, t, x, a, b, c, out, flags, fault, src, steps, structVars>>

\* res = a * BigInt()
TimesZero ==
    /\ op = "constructed" /\ ~Printed
    /\ \E g \in Garbage : res' = Times(a, BigIntDefault, g)
    /\ op' = "times_zero"
    /\ UNCHANGED <<s, t, x, a, b, c, out, flags, fault, src, steps, structVars>>

\* out = res.ToString().  With an empty val, val.back() reads in front of a null
\* data pointer and val.size() - 1 wraps, so that out.resize() is asked for more
\* than max_size(): the call ends in a fault, not in a string.
Serialize ==
    /\ op # "init" /\ ~Printed
    /\ IF res.val = <<>>
       THEN fault' \in {"segv", "length_error"} /\ out' = <<>>
       ELSE fault' = fault /\ out' = ToString(res)
    /\ UNCHANGED <<s, t, x, a, b, c, res, flags, src, op, steps, structVars>>

NextCodec ==
    \/ ConstructString
    \/ ConstructInt
    \/ ConstructDefault
    \/ MinusSelf
    \/ TimesZero
    \/ Serialize

SpecCodec == InitCodec /\ [][NextCodec]_vars

(***************************************************************************)
(* Claims about construction and serialization (SpecCodec).                *)
(***************************************************************************)
\* str without its leading '0' characters
RECURSIVE StripZeros(_)
StripZeros(d) == IF Len(d) > 0 /\ d[1] = CharZero THEN StripZeros(Tail(d)) ELSE d

\* the canonical form of a string -?[0-9]+: leading zeros stripped, no sign on zero
CanonicalForm(str) ==
    LET neg == Len(str) > 0 /\ str[1] = CharMinus
        d == StripZeros(IF neg THEN Tail(str) ELSE str)
    IN IF d = <<>> THEN <<CharZero>>
       ELSE (IF neg THEN <<CharMinus>> ELSE <<>>) \o d

\* sum of q[i] * base^i
RECURSIVE LimbValue(_)
LimbValue(q) == IF q = <<>> THEN 0 ELSE q[1] + base * LimbValue(Tail(q))

Abs(v) == IF v < 0 THEN -v ELSE v

\* C4: for every string s matching -?[0-9]+, BigInt(s).ToString() is the
\* canonical form of s (leading zeros stripped, "-0" normalized to "0").
C4_RoundTrip ==
    (src = "string" /\ op = "constructed" /\ Printed /\ ValidFormat(s))
        => (fault = "none" /\ out = CanonicalForm(s))

\* C5: constructing a BigInt from a string that does not match -?[0-9]+ (empty
\* digit run, or a character that is no digit) fails with InvalidFormat.
C5_InvalidFormat ==
    (src = "string" /\ op = "constructed" /\ ~ValidFormat(s))
        => fault = "InvalidFormat"

\* C6: BigInt(x) of a native integer x has its sign set exactly when x < 0 and
\* limbs, least significant first, whose value is |x|; for x = 0 they are [0].
C6_FromInt ==
    (src = "int" /\ op = "constructed")
        => /\ (a.sig = 1) = (x < 0)
           /\ a.sig \in {0, 1}
           /\ LimbValue(a.val) = Abs(x)
           /\ (x = 0 => a.val = <<0>>)

\* a was built as a value: by default, from an integer, or from a valid string
ValidlyBuilt == src \in {"default", "int"} \/ (src = "string" /\ ValidFormat(s))

\* the value that is serialized is zero by the way it was made
MadeZero ==
    \/ op = "constructed" /\ src = "default"
    \/ op = "constructed" /\ src = "int" /\ x = 0
    \/ op = "constructed" /\ src = "string" /\ ValidFormat(s)
          /\ CanonicalForm(s) = <<CharZero>>
    \/ op \in {"minus_self", "times_zero"} /\ ValidlyBuilt

\* C7: every BigInt whose value is zero (built from the integer 0, parsed from
\* "0" or "-0..0", or produced by a - a or a * 0) serializes as exactly "0".
C7_ZeroSerializes ==
    (Printed /\ MadeZero) => (fault = "none" /\ out = <<CharZero>>)

(***************************************************************************)
(* Signed addition and subtraction of two canonical values a and b.        *)
(***************************************************************************)
InitArith ==
    /\ a \in Canonicals(MaxLimbs) /\ b \in Canonicals(MaxLimbs)
    /\ s = <<>> /\ t = <<>> /\ x = 0 /\ c = BigIntDefault
    /\ res = BigIntDefault /\ out = <<>> /\ flags = NoFlags
    /\ fault = "none" /\ src = "canonical" /\ op = "init" /\ steps = 0 /\ StructIdle

\* res = a + b
DoPlus ==
    /\ op = "init"
    /\ res' = Plus(a, b)
    /\ op' = "plus"
    /\ UNCHANGED <<s, t, x, a, b, c, out, flags, fault, src, steps, structVars>>

\* res = a - b
DoMinus ==
    /\ op = "init"
    /\ res' = Minus(a, b)
    /\ op' = "minus"
    /\ UNCHANGED <<s, t, x, a, b, c, out, flags, fault, src, steps, structVars>>

NextArith ==
    \/ DoPlus
    \/ DoMinus

SpecArith == InitArith /\ [][NextArith]_vars

\* the integer a BigInt stands for
Value(v) == IF v.sig # 0 THEN -LimbValue(v.val) ELSE LimbValue(v.val)

\* C2: for canonical a and b of any signs, a + b is the (canonical) BigInt whose
\* value is value(a) + value(b).
C2_Sum == op = "plus" => (IsCanonical(res) /\ Value(res) = Value(a) + Value(b))

\* a + b was computed for operands of mixed signs, the negative one being the
\* larger in magnitude, with a borrow that shortens the result
C2_Witness ==
    /\ op = "plus" /\ a.sig = 0 /\ b.sig = 1
    /\ LimbValue(a.val) < LimbValue(b.val)
    /\ res.sig = 1 /\ Len(res.val) < Len(b.val)

\* C3: for canonical a and b of any signs, a - b is the (canonical) BigInt whose
\* value is value(a) - value(b); a smaller positive minus a larger one is the
\* negative difference.
C3_Difference == op = "minus" => (IsCanonical(res) /\ Value(res) = Value(a) - Value(b))

\* a - b was computed for positive a < b, both of two limbs, with a borrow
C3_Witness ==
    /\ op = "minus" /\ a.sig = 0 /\ b.sig = 0
    /\ Len(a.val) = 2 /\ Len(b.val) = 2 /\ a.val[1] > b.val[1]
    /\ LimbValue(a.val) < LimbValue(b.val)
    /\ res.sig = 1

(***************************************************************************)
(* Multiplication of two canonical values a and b.                         *)
(***************************************************************************)
MulLimbVals == {0, 1, base - 1}

MulOperands ==
    {v \in {[val |-> q, sig |-> g] : q \in SeqsUpTo(MulLimbVals, MaxMulLimbs), g \in {0, 1}} :
        IsCanonical(v)}

InitMul ==
    /\ a \in MulOperands /\ b \in MulOperands
    /\ s = <<>> /\ t = <<>> /\ x = 0 /\ c = BigIntDefault
    /\ res = BigIntDefault /\ out = <<>> /\ flags = NoFlags
    /\ fault = "none" /\ src = "canonical" /\ op = "init" /\ steps = 0 /\ StructIdle

\* res = a * b
DoTimes ==
    /\ op = "init"
    /\ \E g \in Garbage : res' = Times(a, b, g)
    /\ fault' = IF MultiplyInBounds(a.val, b.val) THEN fault ELSE "out_of_bounds_read"
    /\ op' = "times"
    /\ UNCHANGED <<s, t, x, a, b, c, out, flags, src, steps, structVars>>

SpecMul == InitMul /\ [][DoTimes]_vars

\* The schoolbook reference: column k of the product is the sum of the limb
\* products p[i] * q[j] with i + j = k, then the carries are propagated.
RECURSIVE ColumnSum(_, _, _, _)
ColumnSum(p, q, k, i) ==
    IF i > Len(p) THEN 0
    ELSE (IF k - i >= 1 /\ k - i <= Len(q) THEN p[i] * q[k - i] ELSE 0)
         + ColumnSum(p, q, k, i + 1)

RECURSIVE Propagate(_, _, _)
Propagate(cols, k, carry) ==
    IF k > Len(cols)
    THEN IF carry = 0 THEN <<>> ELSE <<carry % base>> \o Propagate(cols, k, carry \div base)
    ELSE <<(cols[k] + carry) % base>> \o Propagate(cols, k + 1, (cols[k] + carry) \div base)

RefProduct(u, v) ==
    LET cols == [k \in 1..(Len(u.val) + Len(v.val) - 1) |-> ColumnSum(u.val, v.val, k + 1, 1)]
        mag == PopZeros(Propagate(cols, 1, 0), 1)
    IN [val |-> mag,
        sig |-> IF mag = <<0>> THEN 0 ELSE IF u.sig # v.sig THEN 1 ELSE 0]

\* C1: for canonical a and b, a * b is exactly the product, as the schoolbook
\* reference computes it, with sign = XOR of the signs: on the Karatsuba paths
\* too, for all operand lengths and for operands whose low limbs are zero.
C1_Product == op = "times" => res = RefProduct(a, b)

(***************************************************************************)
(* Two values built from the strings s and t, then compared; and three     *)
(* values a, b, c compared.                                                *)
(***************************************************************************)
InitEq ==
    /\ s \in ValidStrings /\ t \in ValidStrings /\ x = 0
    /\ a = BigIntDefault /\ b = BigIntDefault /\ c = BigIntDefault
    /\ res = BigIntDefault /\ out = <<>> /\ flags = NoFlags
    /\ fault = "none" /\ src = "none" /\ op = "init" /\ steps = 0 /\ StructIdle

\* BigInt a(s), b(t)
ConstructPair ==
    /\ op = "init"
    /\ a' = BigIntFromString(s)
    /\ b' = BigIntFromString(t)
    /\ src' = "string" /\ op' = "constructed"
    /\ UNCHANGED <<s, t, x, c, res, out, flags, fault, steps, structVars>>

\* every comparison operator on a and b, and < on (b, c) and (a, c)
Compare ==
    /\ op = "constructed"
    /\ flags' = [gt_ab |-> Greater(a, b), ge_ab |-> GreaterEq(a, b),
                 lt_ab |-> Less(a, b), le_ab |-> LessEq(a, b),
                 eq_ab |-> Equal(a, b), lt_bc |-> Less(b, c), lt_ac |-> Less(a, c)]
    /\ op' = "compared"
    /\ UNCHANGED <<s, t, x, a, b, c, res, out, fault, src, steps, structVars>>

NextEq ==
    \/ ConstructPair
    \/ Compare

SpecEq == InitEq /\ [][NextEq]_vars

\* C8: two strings matching -?[0-9]+ that denote the same integer construct
\* BigInt values for which operator== returns true.
C8_EqualValues ==
    (op = "compared" /\ CanonicalForm(s) = CanonicalForm(t)) => flags.eq_ab

OrderVals == {0, 1, base - 1}

\* every representation the constructors can leave behind: any limb sequence,
\* the empty one included, with either sign
OrderOperands ==
    {[val |-> q, sig |-> g] : q \in SeqsUpTo(OrderVals, MaxLimbs), g \in {0, 1}}

InitOrder ==
    /\ a \in OrderOperands /\ b \in OrderOperands /\ c \in OrderOperands
    /\ s = <<>> /\ t = <<>> /\ x = 0
    /\ res = BigIntDefault /\ out = <<>> /\ flags = NoFlags
    /\ fault = "none" /\ src = "reps" /\ op = "constructed" /\ steps = 0 /\ StructIdle

SpecOrder == InitOrder /\ [][Compare]_vars

\* C10: exactly one of a < b, a == b, a > b holds; a >= b holds exactly when
\* a > b or a == b; and < is transitive.
C10_Order ==
    op = "compared" =>
        /\ \/ (flags.lt_ab /\ ~flags.eq_ab /\ ~flags.gt_ab)
           \/ (~flags.lt_ab /\ flags.eq_ab /\ ~flags.gt_ab)
           \/ (~flags.lt_ab /\ ~flags.eq_ab /\ flags.gt_ab)
        /\ flags.ge_ab = (flags.gt_ab \/ flags.eq_ab)
        /\ ((flags.lt_ab /\ flags.lt_bc) => flags.lt_ac)

\* a < b < c were compared with a and b negative, of the same length and
\* differing below the most-significant limb
C10_Witness ==
    /\ op = "compared" /\ flags.lt_ab /\ flags.lt_bc /\ flags.lt_ac
    /\ a.sig = 1 /\ b.sig = 1 /\ Len(a.val) = 2 /\ Len(b.val) = 2
    /\ a.val[2] = b.val[2]

(***************************************************************************)
(* Sequences of operators applied to a, starting from constructed values.  *)
(***************************************************************************)
ShortStrings == {str \in ValidStrings : Len(str) <= LimbDigits}

InitSeq ==
    /\ s \in ValidStrings /\ t \in ShortStrings /\ x \in {0, base + 2}
    /\ a = BigIntDefault /\ b = BigIntDefault /\ c = BigIntDefault
    /\ res = BigIntDefault /\ out = <<>> /\ flags = NoFlags
    /\ fault = "none" /\ src = "none" /\ op = "init" /\ steps = 0 /\ StructIdle

\* BigInt a(x), b(t)
ConstructIntPair ==
    /\ op = "init"
    /\ a' = BigIntFromInt(x)
    /\ b' = BigIntFromString(t)
    /\ src' = "int" /\ op' = "constructed"
    /\ UNCHANGED <<s, t, x, c, res, out, flags, fault, steps, structVars>>

\* BigInt a, b(t)
ConstructDefaultPair ==
    /\ op = "init"
    /\ a' = BigIntDefault
    /\ b' = BigIntFromString(t)
    /\ src' = "default" /\ op' = "constructed"
    /\ UNCHANGED <<s, t, x, c, res, out, flags, fault, steps, structVars>>

\* a += b, that is *this = *this + b
PlusAssign ==
    /\ op # "init" /\ steps < MaxSteps
    /\ a' = Plus(a, b)
    /\ op' = "+=" /\ steps' = steps + 1
    /\ UNCHANGED <<s, t, x, b, c, res, out, flags, fault, src, structVars>>

\* a -= b
MinusAssign ==
    /\ op # "init" /\ steps < MaxSteps
    /\ a' = Minus(a, b)
    /\ op' = "-=" /\ steps' = steps + 1
    /\ UNCHANGED <<s, t, x, b, c, res, out, flags, fault, src, structVars>>

\* a *= b
TimesAssign ==
    /\ op # "init" /\ steps < MaxSteps
    /\ \E g \in Garbage : a' = Times(a, b, g)
    /\ op' = "*=" /\ steps' = steps + 1
    /\ UNCHANGED <<s, t, x, b, c, res, out, flags, fault, src, structVars>>

\* ++a, that is *this = *this + 1, the 1 converted by BigInt(int64_t)
PreIncrement ==
    /\ op # "init" /\ steps < MaxSteps
    /\ a' = Plus(a, BigIntFromInt(1))
    /\ op' = "++" /\ steps' = steps + 1
    /\ UNCHANGED <<s, t, x, b, c, res, out, flags, fault, src, structVars>>

\* --a
PreDecrement ==
    /\ op # "init" /\ steps < MaxSteps
    /\ a' = Minus(a, BigIntFromInt(1))
    /\ op' = "--" /\ steps' = steps + 1
    /\ UNCHANGED <<s, t, x, b, c, res, out, flags, fault, src, structVars>>

NextSeq ==
    \/ ConstructPair
    \/ ConstructIntPair
    \/ ConstructDefaultPair
    \/ PlusAssign
    \/ MinusAssign
    \/ TimesAssign
    \/ PreIncrement
    \/ PreDecrement

SpecSeq == InitSeq /\ [][NextSeq]_vars

\* C9: every value reachable from the constructors by any sequence of the
\* arithmetic operators is canonical: limbs non-empty and in [0, base), no
\* most-significant zero limb unless the value is [0], no sign on [0].
C9_Canonical == op # "init" => (IsCanonical(a) /\ IsCanonical(b))

(***************************************************************************)
(* Further claims about the comparison operators (SpecOrder) and about     *)
(* signed addition and subtraction (SpecArith).                            *)
(***************************************************************************)
\* C11: for canonical a and b, each of a > b, a >= b, a < b, a <= b, a == b is
\* the truth of the same comparison between the integers value(a) and value(b).
C11_ComparesValues ==
    (op = "compared" /\ IsCanonical(a) /\ IsCanonical(b)) =>
        /\ flags.gt_ab = (Value(a) > Value(b))
        /\ flags.ge_ab = (Value(a) >= Value(b))
        /\ flags.lt_ab = (Value(a) < Value(b))
        /\ flags.le_ab = (Value(a) <= Value(b))
        /\ flags.eq_ab = (Value(a) = Value(b))

\* two canonical negative values of two limbs each, equal in the most-significant
\* limb, were compared: the lower limb decides and the result is inverted
C11_Witness ==
    /\ op = "compared" /\ IsCanonical(a) /\ IsCanonical(b)
    /\ a.sig = 1 /\ b.sig = 1 /\ Len(a.val) = 2 /\ Len(b.val) = 2
    /\ a.val[2] = b.val[2] /\ a.val[1] > b.val[1]
    /\ flags.lt_ab /\ flags.le_ab /\ ~flags.gt_ab /\ ~flags.ge_ab /\ ~flags.eq_ab

\* C12: for canonical a, a - a and a + (the value of opposite sign and equal
\* magnitude) are canonical zero: val = [0], sig clear, == to BigInt().
C12_CancelsToZero ==
    ((op = "minus" /\ a = b) \/ (op = "plus" /\ a.val = b.val /\ a.sig # b.sig))
        => (res = [val |-> <<0>>, sig |-> 0] /\ Equal(res, BigIntDefault))

\* a negative two-limb a was added to the positive value of the same magnitude
C12_Witness ==
    /\ op = "plus" /\ a.val = b.val /\ a.sig = 1 /\ b.sig = 0 /\ Len(a.val) = 2
    /\ res = BigIntDefault

(***************************************************************************)
(* The compound operators with the left operand as the right operand:      *)
(* a += a, a -= a, a *= a, applied to a canonical a and then to what the   *)
(* earlier ones left in a.  c is a before the last operator.               *)
(***************************************************************************)
InitAlias ==
    /\ a \in MulOperands /\ c = a /\ b = BigIntDefault
    /\ s = <<>> /\ t = <<>> /\ x = 0
    /\ res = BigIntDefault /\ out = <<>> /\ flags = NoFlags
    /\ fault = "none" /\ src = "canonical" /\ op = "init" /\ steps = 0 /\ StructIdle

\* a += a: *this = *this + b with b bound to *this
SelfPlusAssign ==
    /\ steps < MaxSteps
    /\ a' = Plus(a, a) /\ c' = a
    /\ op' = "a+=a" /\ steps' = steps + 1
    /\ UNCHANGED <<s, t, x, b, res, out, flags, fault, src, structVars>>

\* a -= a
SelfMinusAssign ==
    /\ steps < MaxSteps
    /\ a' = Minus(a, a) /\ c' = a
    /\ op' = "a-=a" /\ steps' = steps + 1
    /\ UNCHANGED <<s, t, x, b, res, out, flags, fault, src, structVars>>

\* a *= a
SelfTimesAssign ==
    /\ steps < MaxSteps
    /\ \E g \in Garbage : a' = Times(a, a, g)
    /\ c' = a
    /\ op' = "a*=a" /\ steps' = steps + 1
    /\ UNCHANGED <<s, t, x, b, res, out, flags, fault, src, structVars>>

NextAlias ==
    \/ SelfPlusAssign
    \/ SelfMinusAssign
    \/ SelfTimesAssign

SpecAlias == InitAlias /\ [][NextAlias]_vars

BigIntTwo == [val |-> <<1 + 1>>, sig |-> 0]

\* C13: for canonical a (fresh, or left by earlier compound operators), a += a
\* leaves 2 * a_old, a -= a leaves canonical zero, a *= a leaves a_old squared.
C13_SelfAliasing ==
    IsCanonical(c) =>
        /\ (op = "a+=a" => a = RefProduct(c, BigIntTwo))
        /\ (op = "a-=a" => a = BigIntDefault)
        /\ (op = "a*=a" => a = RefProduct(c, c))

\* C15: on canonical operands * reads no limb outside the vector it reads from:
\* every shifted Add(a, b, as) called by Multiply has as <= length(b).
C15_ReadsInBounds == op = "times" => fault = "none"

(***************************************************************************)
(* PowInt(x, n): the value is a, the exponent is x, an unsigned integer    *)
(* of UintBits bits.                                                       *)
(***************************************************************************)
RECURSIVE Pow2(_)
Pow2(k) == IF k = 0 THEN 1 ELSE 2 * Pow2(k - 1)

\* for (auto t = n; t; t /= 2, i *= 2); : i after the loop, in unsigned arithmetic
RECURSIVE MaskLoop(_, _)
MaskLoop(n, i) == IF n = 0 THEN i ELSE MaskLoop(n \div 2, (i * 2) % Pow2(UintBits))

\* n & i for a power of two i
BitSet(n, i) == (n \div i) % 2 = 1

\* for (...; i; i /= 2) { res *= res; if (n & i) res *= x; }
RECURSIVE PowLoop(_, _, _, _, _)
PowLoop(r, v, n, i, g) ==
    IF i = 0 THEN r
    ELSE LET sq == Times(r, r, g)
         IN PowLoop(IF BitSet(n, i) THEN Times(sq, v, g) ELSE sq, v, n, i \div 2, g)

PowInt(v, n, g) == PowLoop(BigIntFromInt(1), v, n, MaskLoop(n, 1), g)

PowOperands ==
    {v \in {[val |-> q, sig |-> g] : q \in SeqsUpTo({0, 1, 2, base - 1}, 2), g \in {0, 1}} :
        IsCanonical(v)}

InitPow ==
    /\ a \in PowOperands /\ x \in 0..(Pow2(UintBits) - 1)
    /\ s = <<>> /\ t = <<>> /\ b = BigIntDefault /\ c = BigIntDefault
    /\ res = BigIntDefault /\ out = <<>> /\ flags = NoFlags
    /\ fault = "none" /\ src = "canonical" /\ op = "init" /\ steps = 0 /\ StructIdle

\* res = PowInt(a, x)
DoPowInt ==
    /\ op = "init"
    /\ \E g \in Garbage : res' = PowInt(a, x, g)
    /\ op' = "pow"
    /\ UNCHANGED <<s, t, x, a, b, c, out, flags, fault, src, steps, structVars>>

SpecPow == InitPow /\ [][DoPowInt]_vars

\* x^n by repeated schoolbook multiplication
RECURSIVE RefPower(_, _)
RefPower(v, n) ==
    IF n = 0 THEN [val |-> <<1>>, sig |-> 0] ELSE RefProduct(RefPower(v, n - 1), v)

\* C14: PowInt(x, n) is x^n for every canonical x and every exponent n of the
\* unsigned parameter's range, the upper half of the range included, and
\* PowInt(x, 0) = 1.
C14_Power == op = "pow" => res = RefPower(a, x)

(***************************************************************************)
(* Red-black trees (src/struct/bs_tree.h).                                 *)
(*                                                                         *)
(* A tree object is the record [cls, cmp, nodes, root, size]: cls is the   *)
(* class of the object (it selects the virtual functions), cmp the         *)
(* comparator _Cmp, nodes the heap cells of the object, a function from    *)
(* addresses to node records, root and size the fields of those names.     *)
(* The sentinel _rb_null (_rbo_null in RBTreeDynOrder) lives at the        *)
(* address RB_NULL; operator new places the node of key k at the address   *)
(* k + 1, which is free whenever it is asked for because a set holds one   *)
(* node per key; operator delete takes the cell out of the heap, so that   *)
(* a read through a dangling pointer has no value.  The node records of a  *)
(* DynOrderSet (RBONode) carry the fields cnt and size in addition.        *)
(*                                                                         *)
(* The parameters nx, ny, nz, nw stand for the source's x, y, z, w.        *)
(***************************************************************************)
NumKeys == 6         \* keys are 0 .. NumKeys - 1

RED == "RED"

BLACK == "BLACK"

RB_NULL == 0

nullptr == -1

Keys == 0 .. (NumKeys - 1)

NewAddr(k) == k + 1

IsDynOrder(tr) == tr.cls \in {"DynOrderSet", "DynOrderMultiSet"}

RBNode(k, l, r, par) ==
    [key |-> k, color |-> RED, left |-> l, right |-> r, p |-> par]

RBONode(k, l, r, par) ==
    [key |-> k, color |-> RED, left |-> l, right |-> r, p |-> par,
     cnt |-> 1, size |-> 1]

(* The constructors RBTree() and RBTreeDynOrder(): the sentinel is built   *)
(* from the default key with null links, then painted black (and given     *)
(* size 0 and cnt 0).                                                      *)
RBTree(cls, cm) ==
    LET null == IF cls \in {"DynOrderSet", "DynOrderMultiSet"}
                THEN [RBONode(0, nullptr, nullptr, nullptr)
                        EXCEPT !.color = BLACK, !.size = 0, !.cnt = 0]
                ELSE [RBNode(0, nullptr, nullptr, nullptr)
                        EXCEPT !.color = BLACK]
    IN  [cls |-> cls, cmp |-> cm, nodes |-> [n \in {RB_NULL} |-> null],
         root |-> RB_NULL, size |-> 0]

(* n->f = v *)
Store(tr, n, f, v) == [tr EXCEPT !.nodes[n][f] = v]

(* cmp(k1, k2) for std::less and std::greater *)
Cmp(tr, k1, k2) == IF tr.cmp = "less" THEN k1 < k2 ELSE k1 > k2

(* Sequencing: the statement that produced v has run, and F continues     *)
(* from its result.  v is evaluated once, whatever F does with it.         *)
Then(v, F(_)) == CHOOSE r \in {F(w) : w \in {v}} : TRUE

RotateL(tr, nx) ==
    LET ny == tr.nodes[nx].right
    IN  Then(Store(tr, nx, "right", tr.nodes[ny].left), LAMBDA t1 :
        Then(IF t1.nodes[ny].left # RB_NULL
             THEN Store(t1, t1.nodes[ny].left, "p", nx) ELSE t1, LAMBDA t2 :
        Then(Store(t2, ny, "p", t2.nodes[nx].p), LAMBDA t3 :
        Then(IF t3.nodes[nx].p = RB_NULL THEN [t3 EXCEPT !.root = ny]
             ELSE IF nx = t3.nodes[t3.nodes[nx].p].left
                  THEN Store(t3, t3.nodes[nx].p, "left", ny)
             ELSE Store(t3, t3.nodes[nx].p, "right", ny), LAMBDA t4 :
        Then(Store(t4, ny, "left", nx), LAMBDA t5 :
             Store(t5, nx, "p", ny))))))

RotateR(tr, nx) ==
    LET ny == tr.nodes[nx].left
    IN  Then(Store(tr, nx, "left", tr.nodes[ny].right), LAMBDA t1 :
        Then(IF t1.nodes[ny].right # RB_NULL
             THEN Store(t1, t1.nodes[ny].right, "p", nx) ELSE t1, LAMBDA t2 :
        Then(Store(t2, ny, "p", t2.nodes[nx].p), LAMBDA t3 :
        Then(IF t3.nodes[nx].p = RB_NULL THEN [t3 EXCEPT !.root = ny]
             ELSE IF nx = t3.nodes[t3.nodes[nx].p].left
                  THEN Store(t3, t3.nodes[nx].p, "left", ny)
             ELSE Store(t3, t3.nodes[nx].p, "right", ny), LAMBDA t4 :
        Then(Store(t4, ny, "right", nx), LAMBDA t5 :
             Store(t5, nx, "p", ny))))))

(* x->size = x->left->size + x->right->size + x->cnt *)
SumSize(tr, nx) ==
    tr.nodes[tr.nodes[nx].left].size + tr.nodes[tr.nodes[nx].right].size
        + tr.nodes[nx].cnt

(* RBTreeDynOrder::RotateL and RotateR: the base rotation, then the sizes  *)
(* of x and of y, in this order.                                           *)
DynOrderRotateL(tr, nx) ==
    LET ny == tr.nodes[nx].right
    IN  Then(RotateL(tr, nx), LAMBDA t6 :
        Then(Store(t6, nx, "size", SumSize(t6, nx)), LAMBDA t7 :
             Store(t7, ny, "size",
                   t7.nodes[nx].size + t7.nodes[t7.nodes[ny].right].size
                       + t7.nodes[ny].cnt)))

DynOrderRotateR(tr, nx) ==
    LET ny == tr.nodes[nx].left
    IN  Then(RotateR(tr, nx), LAMBDA t6 :
        Then(Store(t6, nx, "size", SumSize(t6, nx)), LAMBDA t7 :
             Store(t7, ny, "size",
                   t7.nodes[nx].size + t7.nodes[t7.nodes[ny].left].size
                       + t7.nodes[ny].cnt)))

(* The virtual calls RotateL(x) and RotateR(x). *)
CallRotateL(tr, nx) ==
    IF IsDynOrder(tr) THEN DynOrderRotateL(tr, nx) ELSE RotateL(tr, nx)

CallRotateR(tr, nx) ==
    IF IsDynOrder(tr) THEN DynOrderRotateR(tr, nx) ELSE RotateR(tr, nx)

RECURSIVE InsertFuxup(_, _)
InsertFuxup(tr, nz) ==
    LET zp == tr.nodes[nz].p
    IN  IF tr.nodes[zp].color # RED THEN Store(tr, tr.root, "color", BLACK)
        ELSE
          LET zpp == tr.nodes[zp].p
          IN  IF zp = tr.nodes[zpp].left
              THEN
                LET ny == tr.nodes[zpp].right
                IN  IF tr.nodes[ny].color = RED
                    THEN
                      Then(Store(tr, zp, "color", BLACK), LAMBDA t1 :
                      Then(Store(t1, ny, "color", BLACK), LAMBDA t2 :
                      Then(Store(t2, zpp, "color", RED), LAMBDA t3 :
                           InsertFuxup(t3, zpp))))
                    ELSE
                      LET inner == (nz = tr.nodes[zp].right)
                          z1 == IF inner THEN zp ELSE nz
                      IN  Then(IF inner THEN CallRotateL(tr, z1) ELSE tr,
                               LAMBDA t1 :
                          Then(Store(t1, t1.nodes[z1].p, "color", BLACK),
                               LAMBDA t2 :
                          Then(Store(t2, t2.nodes[t2.nodes[z1].p].p,
                                     "color", RED), LAMBDA t3 :
                          Then(CallRotateR(t3, t3.nodes[t3.nodes[z1].p].p),
                               LAMBDA t4 :
                               InsertFuxup(t4, z1)))))
              ELSE
                LET ny == tr.nodes[zpp].left
                IN  IF tr.nodes[ny].color = RED
                    THEN
                      Then(Store(tr, zp, "color", BLACK), LAMBDA t1 :
                      Then(Store(t1, ny, "color", BLACK), LAMBDA t2 :
                      Then(Store(t2, zpp, "color", RED), LAMBDA t3 :
                           InsertFuxup(t3, zpp))))
                    ELSE
                      LET inner == (nz = tr.nodes[zp].left)
                          z1 == IF inner THEN zp ELSE nz
                      IN  Then(IF inner THEN CallRotateR(tr, z1) ELSE tr,
                               LAMBDA t1 :
                          Then(Store(t1, t1.nodes[z1].p, "color", BLACK),
                               LAMBDA t2 :
                          Then(Store(t2, t2.nodes[t2.nodes[z1].p].p,
                                     "color", RED), LAMBDA t3 :
                          Then(CallRotateL(t3, t3.nodes[t3.nodes[z1].p].p),
                               LAMBDA t4 :
                               InsertFuxup(t4, z1)))))

RECURSIVE DeleteFixup(_, _)
DeleteFixup(tr, nx) ==
    IF ~(nx # tr.root /\ tr.nodes[nx].color = BLACK)
    THEN Store(tr, nx, "color", BLACK)
    ELSE
      IF nx = tr.nodes[tr.nodes[nx].p].left
      THEN
        LET xp == tr.nodes[nx].p
            w0 == tr.nodes[xp].right
            red == (tr.nodes[w0].color = RED)
        IN  Then(IF red
                 THEN Then(Store(tr, xp, "color", RED), LAMBDA s1 :
                      Then(Store(s1, w0, "color", BLACK), LAMBDA s2 :
                           CallRotateL(s2, s2.nodes[nx].p)))
                 ELSE tr, LAMBDA t1 :
            LET w1 == IF red THEN t1.nodes[t1.nodes[nx].p].right ELSE w0
            IN  IF /\ t1.nodes[t1.nodes[w1].left].color = BLACK
                   /\ t1.nodes[t1.nodes[w1].right].color = BLACK
                THEN Then(Store(t1, w1, "color", RED), LAMBDA t2 :
                          DeleteFixup(t2, t2.nodes[nx].p))
                ELSE
                  LET far == (t1.nodes[t1.nodes[w1].right].color = BLACK)
                  IN  Then(IF far
                           THEN Then(Store(t1, t1.nodes[w1].left, "color",
                                           BLACK), LAMBDA s1 :
                                Then(Store(s1, w1, "color", RED), LAMBDA s2 :
                                     CallRotateR(s2, w1)))
                           ELSE t1, LAMBDA t2 :
                      LET w2 == IF far THEN t2.nodes[t2.nodes[nx].p].right
                                ELSE w1
                      IN  Then(Store(t2, w2, "color",
                                     t2.nodes[t2.nodes[nx].p].color),
                               LAMBDA t3 :
                          Then(Store(t3, t3.nodes[w2].p, "color", BLACK),
                               LAMBDA t4 :
                          Then(Store(t4, t4.nodes[w2].right, "color", BLACK),
                               LAMBDA t5 :
                          Then(CallRotateL(t5, t5.nodes[nx].p), LAMBDA t6 :
                               DeleteFixup(t6, t6.root))))))
            )
      ELSE
        LET xp == tr.nodes[nx].p
            w0 == tr.nodes[xp].left
            red == (tr.nodes[w0].color = RED)
        IN  Then(IF red
                 THEN Then(Store(tr, xp, "color", RED), LAMBDA s1 :
                      Then(Store(s1, w0, "color", BLACK), LAMBDA s2 :
                           CallRotateR(s2, s2.nodes[nx].p)))
                 ELSE tr, LAMBDA t1 :
            LET w1 == IF red THEN t1.nodes[t1.nodes[nx].p].left ELSE w0
            IN  IF /\ t1.nodes[t1.nodes[w1].left].color = BLACK
                   /\ t1.nodes[t1.nodes[w1].right].color = BLACK
                THEN Then(Store(t1, w1, "color", RED), LAMBDA t2 :
                          DeleteFixup(t2, t2.nodes[nx].p))
                ELSE
                  LET far == (t1.nodes[t1.nodes[w1].left].color = BLACK)
                  IN  Then(IF far
                           THEN Then(Store(t1, t1.nodes[w1].right, "color",
                                           BLACK), LAMBDA s1 :
                                Then(Store(s1, w1, "color", RED), LAMBDA s2 :
                                     CallRotateL(s2, w1)))
                           ELSE t1, LAMBDA t2 :
                      LET w2 == IF far THEN t2.nodes[t2.nodes[nx].p].left
                                ELSE w1
                      IN  Then(Store(t2, w2, "color",
                                     t2.nodes[t2.nodes[nx].p].color),
                               LAMBDA t3 :
                          Then(Store(t3, t3.nodes[w2].p, "color", BLACK),
                               LAMBDA t4 :
                          Then(Store(t4, t4.nodes[w2].left, "color", BLACK),
                               LAMBDA t5 :
                          Then(CallRotateR(t5, t5.nodes[nx].p), LAMBDA t6 :
                               DeleteFixup(t6, t6.root))))))
            )

(* Transplant writes v->p also when v is the sentinel. *)
Transplant(tr, u, v) ==
    Then(IF tr.nodes[u].p = RB_NULL THEN [tr EXCEPT !.root = v]
         ELSE IF u = tr.nodes[tr.nodes[u].p].left
              THEN Store(tr, tr.nodes[u].p, "left", v)
         ELSE Store(tr, tr.nodes[u].p, "right", v), LAMBDA t1 :
         Store(t1, v, "p", t1.nodes[u].p))

(* delete z, and DestroyNodes(root) *)
Free(tr, n) ==
    [tr EXCEPT !.nodes = [m \in DOMAIN tr.nodes \ {n} |-> tr.nodes[m]]]

DestroyNodes(tr) == [tr EXCEPT !.nodes = [m \in {RB_NULL} |-> tr.nodes[m]]]

RECURSIVE Leftmost(_, _)
Leftmost(tr, ny) ==
    IF tr.nodes[ny].left # RB_NULL THEN Leftmost(tr, tr.nodes[ny].left)
    ELSE ny

(* The third branch of Delete, from "if (y->p == z)" to                    *)
(* "y->color = z->color": y takes the place of z.                          *)
Splice(tr, nz, ny, nx) ==
    Then(IF tr.nodes[ny].p = nz THEN Store(tr, nx, "p", ny)
         ELSE Then(Transplant(tr, ny, nx), LAMBDA v1 :
              Then(Store(v1, ny, "right", v1.nodes[nz].right), LAMBDA v2 :
                   Store(v2, v2.nodes[ny].right, "p", ny))), LAMBDA u1 :
    Then(Transplant(u1, nz, ny), LAMBDA u2 :
    Then(Store(u2, ny, "left", u2.nodes[nz].left), LAMBDA u3 :
    Then(Store(u3, u3.nodes[ny].left, "p", ny), LAMBDA u4 :
         Store(u4, ny, "color", u4.nodes[nz].color)))))

(* RBTree::Delete *)
Delete(tr, nz) ==
    LET zl == tr.nodes[nz].left
        zr == tr.nodes[nz].right
        ny == Leftmost(tr, zr)
        nx == IF zl = RB_NULL THEN zr
              ELSE IF zr = RB_NULL THEN zl
              ELSE tr.nodes[ny].right
        orig_color == IF zl = RB_NULL \/ zr = RB_NULL THEN tr.nodes[nz].color
                      ELSE tr.nodes[ny].color
    IN  Then(IF zl = RB_NULL \/ zr = RB_NULL THEN Transplant(tr, nz, nx)
             ELSE Splice(tr, nz, ny, nx), LAMBDA t1 :
        Then(Free(t1, nz), LAMBDA t2 :
             IF orig_color = BLACK THEN DeleteFixup(t2, nx) ELSE t2))

(* for (auto p = ...; p != RB_NULL; p = p->p) to_pRBONode(p)->size += d *)
RECURSIVE AdjustAncestors(_, _, _)
AdjustAncestors(tr, np, d) ==
    IF np = RB_NULL THEN tr
    ELSE Then(Store(tr, np, "size", tr.nodes[np].size + d), LAMBDA t1 :
              AdjustAncestors(t1, t1.nodes[np].p, d))

(* while (y->left != RB_NULL) { to_pRBONode(y)->size--; y = y->left; } *)
RECURSIVE DescendLeft(_, _)
DescendLeft(tr, ny) ==
    IF tr.nodes[ny].left # RB_NULL
    THEN Then(Store(tr, ny, "size", tr.nodes[ny].size - 1), LAMBDA t1 :
              DescendLeft(t1, t1.nodes[ny].left))
    ELSE tr

(* A DynOrderSet whose Delete is the base class's: no size is updated. *)
DeleteWithoutSizes(tr, nz) == Delete(tr, nz)

(* RBTreeDynOrder::Delete *)
DynOrderDelete(tr, nz) ==
    Then(AdjustAncestors(tr, tr.nodes[nz].p, -1), LAMBDA t0 :
    LET zl == t0.nodes[nz].left
        zr == t0.nodes[nz].right
        ny == Leftmost(t0, zr)
        nx == IF zl = RB_NULL THEN zr
              ELSE IF zr = RB_NULL THEN zl
              ELSE t0.nodes[ny].right
        orig_color == IF zl = RB_NULL \/ zr = RB_NULL THEN t0.nodes[nz].color
                      ELSE t0.nodes[ny].color
    IN  Then(IF zl = RB_NULL \/ zr = RB_NULL THEN Transplant(t0, nz, nx)
             ELSE Then(DescendLeft(t0, zr), LAMBDA u0 :
                  Then(Splice(u0, nz, ny, nx), LAMBDA u5 :
                       Store(u5, ny, "size", SumSize(u5, ny)))), LAMBDA t1 :
        Then(Free(t1, nz), LAMBDA t2 :
             IF orig_color = BLACK THEN DeleteFixup(t2, nx) ELSE t2)))

(* The virtual call Delete(x). *)
CallDelete(tr, nz) ==
    IF IsDynOrder(tr) THEN DynOrderDelete(tr, nz) ELSE Delete(tr, nz)

(* while (x != RB_NULL && x->key != key)                                   *)
(*    x = cmp(x->key, key) ? x->right : x->left;                           *)
RECURSIVE Find(_, _, _)
Find(tr, nx, key) ==
    IF nx # RB_NULL /\ tr.nodes[nx].key # key
    THEN Find(tr, IF Cmp(tr, tr.nodes[nx].key, key) THEN tr.nodes[nx].right
                  ELSE tr.nodes[nx].left, key)
    ELSE nx

(* The descent of Insert: p follows the parent, x the link (root, or the   *)
(* left or right field of p) that holds the current node.                  *)
RECURSIVE Descend(_, _, _, _)
Descend(tr, np, link, key) ==
    LET cur == IF link = "root" THEN tr.root ELSE tr.nodes[np][link]
    IN  IF cur # RB_NULL /\ tr.nodes[cur].key # key
        THEN Descend(tr, cur,
                     IF Cmp(tr, tr.nodes[cur].key, key) THEN "right" ELSE "left",
                     key)
        ELSE [p |-> np, link |-> link, node |-> cur]

(* *x = new RBNode(key, RB_NULL, RB_NULL, p) *)
Attach(tr, at, rec) ==
    Then([tr EXCEPT !.nodes =
            [m \in DOMAIN tr.nodes \cup {NewAddr(rec.key)} |->
               IF m = NewAddr(rec.key) THEN rec ELSE tr.nodes[m]]], LAMBDA t1 :
         IF at.link = "root" THEN [t1 EXCEPT !.root = NewAddr(rec.key)]
         ELSE Store(t1, at.p, at.link, NewAddr(rec.key)))

(* RBTreeSet::Insert *)
RBTreeSetInsert(tr, key) ==
    Then(Descend(tr, RB_NULL, "root", key), LAMBDA at :
        IF at.node # RB_NULL THEN [tree |-> tr, ret |-> FALSE]
        ELSE
          Then(Attach(tr, at, RBNode(key, RB_NULL, RB_NULL, at.p)),
               LAMBDA t1 :
          Then([t1 EXCEPT !.size = @ + 1], LAMBDA t2 :
               [tree |-> InsertFuxup(t2, NewAddr(key)), ret |-> TRUE])))

(* DynOrderSet::Insert *)
DynOrderSetInsert(tr, key) ==
    Then(Descend(tr, RB_NULL, "root", key), LAMBDA at :
        IF at.node # RB_NULL THEN [tree |-> tr, ret |-> FALSE]
        ELSE
          Then(Attach(tr, at, RBONode(key, RB_NULL, RB_NULL, at.p)),
               LAMBDA t1 :
          Then([t1 EXCEPT !.size = @ + 1], LAMBDA t2 :
          Then(AdjustAncestors(t2, at.p, 1), LAMBDA t3 :
               [tree |-> InsertFuxup(t3, NewAddr(key)), ret |-> TRUE]))))

(* A Remove that forgets size--. *)
RemoveSizeKept(tr, key) ==
    LET nx == Find(tr, tr.root, key)
    IN  IF nx = RB_NULL THEN [tree |-> tr, ret |-> 0]
        ELSE [tree |-> CallDelete(tr, nx), ret |-> 1]

(* RBTree::Remove *)
Remove(tr, key) ==
    LET nx == Find(tr, tr.root, key)
    IN  IF nx = RB_NULL THEN [tree |-> tr, ret |-> 0]
        ELSE [tree |-> [CallDelete(tr, nx) EXCEPT !.size = @ - 1], ret |-> 1]

(* RBTreeMulti::Remove, the override a DynOrderSet inherits *)
MultiRemove(tr, key) ==
    LET nx == Find(tr, tr.root, key)
    IN  IF nx = RB_NULL THEN [tree |-> tr, ret |-> 0]
        ELSE LET cnt == tr.nodes[nx].cnt
             IN  [tree |-> [CallDelete(tr, nx) EXCEPT !.size = @ - cnt],
                  ret |-> cnt]

(* RBTree::Count and RBTreeMulti::Count *)
Count(tr, key) ==
    IF Find(tr, tr.root, key) = RB_NULL THEN 0 ELSE 1

MultiCount(tr, key) ==
    LET nx == Find(tr, tr.root, key)
    IN  IF nx = RB_NULL THEN 0 ELSE tr.nodes[nx].cnt

Size(tr) == tr.size

Clear(tr) == [DestroyNodes(tr) EXCEPT !.root = RB_NULL, !.size = 0]

(* RBTree::HelthCheckDfs: the returned int (ret) and the nodes counted     *)
(* into the reference parameter (cnt).  Both subtrees are walked before    *)
(* any test, so cnt is the number of nodes met whatever ret is.            *)
RECURSIVE HelthCheckDfs(_, _)
HelthCheckDfs(tr, nx) ==
    IF nx = RB_NULL THEN [ret |-> 0, cnt |-> 0]
    ELSE
      Then(HelthCheckDfs(tr, tr.nodes[nx].left), LAMBDA l :
      Then(HelthCheckDfs(tr, tr.nodes[nx].right), LAMBDA r :
      LET nd == tr.nodes[nx]
      IN  [cnt |-> 1 + l.cnt + r.cnt,
           ret |->
             IF l.ret < 0 \/ l.ret # r.ret THEN -1
             ELSE IF /\ nd.color = RED
                     /\ nd.left # nullptr
                     /\ \/ tr.nodes[nd.left].color # BLACK
                        \/ tr.nodes[nd.right].color # BLACK
                  THEN -1
             ELSE l.ret + (IF nd.color = BLACK THEN 1 ELSE 0)]))

(* RBTreeDynOrder::HelthCheckDfs *)
RECURSIVE DynOrderHelthCheckDfs(_, _)
DynOrderHelthCheckDfs(tr, nx) ==
    IF nx = RB_NULL THEN [ret |-> 0, cnt |-> 0]
    ELSE
      Then(DynOrderHelthCheckDfs(tr, tr.nodes[nx].left), LAMBDA l :
      Then(DynOrderHelthCheckDfs(tr, tr.nodes[nx].right), LAMBDA r :
      LET nd == tr.nodes[nx]
      IN  [cnt |-> 1 + l.cnt + r.cnt,
           ret |->
             IF l.ret < 0 \/ l.ret # r.ret THEN -1
             ELSE IF tr.nodes[nd.left].size + tr.nodes[nd.right].size + nd.cnt
                        # nd.size
                  THEN -1
             ELSE IF /\ nd.color = RED
                     /\ nd.left # nullptr
                     /\ \/ tr.nodes[nd.left].color # BLACK
                        \/ tr.nodes[nd.right].color # BLACK
                  THEN -1
             ELSE l.ret + (IF nd.color = BLACK THEN 1 ELSE 0)]))

(* The virtual HealthCheck(). *)
HealthCheck(tr) ==
    LET d == IF IsDynOrder(tr) THEN DynOrderHelthCheckDfs(tr, tr.root)
             ELSE HelthCheckDfs(tr, tr.root)
    IN  d.ret >= 0 /\ d.cnt = tr.size

(* The loop of RBTreeDynOrder::GetNth. *)
RECURSIVE GetNthLoop(_, _, _)
GetNthLoop(tr, nx, n) ==
    LET ls == tr.nodes[tr.nodes[nx].left].size
        cnt == tr.nodes[nx].cnt
    IN  IF ls + cnt > n /\ ls <= n THEN nx
        ELSE IF ls < n THEN GetNthLoop(tr, tr.nodes[nx].right, n - (ls + cnt))
        ELSE GetNthLoop(tr, tr.nodes[nx].left, n)

GetNth(tr, n) ==
    IF tr.size <= n THEN nullptr ELSE GetNthLoop(tr, tr.root, n)

(* The loop of RBTreeDynOrder::GetPos: the node reached and the count n. *)
RECURSIVE GetPosLoop(_, _, _, _)
GetPosLoop(tr, nx, n, key) ==
    IF nx # RB_NULL /\ tr.nodes[nx].key # key
    THEN IF Cmp(tr, tr.nodes[nx].key, key)
         THEN GetPosLoop(tr, tr.nodes[nx].right,
                         n + tr.nodes[tr.nodes[nx].left].size
                           + tr.nodes[nx].cnt,
                         key)
         ELSE GetPosLoop(tr, tr.nodes[nx].left, n, key)
    ELSE [node |-> nx, n |-> n]

(* A GetPos that leaves out the left subtree of the node it found. *)
GetPosWithoutLeft(tr, key) ==
    LET at == GetPosLoop(tr, tr.root, 0, key)
        exists == at.node # RB_NULL
    IN  [exists |-> exists, pos |-> IF exists THEN at.n ELSE at.n + 1]

GetPos(tr, key) ==
    LET at == GetPosLoop(tr, tr.root, 0, key)
        exists == at.node # RB_NULL
    IN  [exists |-> exists,
         pos |-> IF exists THEN at.n + tr.nodes[tr.nodes[at.node].left].size
                 ELSE at.n + 1]

(* A GetNthKey that counts positions from 1. *)
GetNthKeyFromOne(tr, n) ==
    LET nx == GetNth(tr, n + 1)
        succeeded == nx # nullptr
    IN  [succeeded |-> succeeded,
         key |-> IF succeeded THEN tr.nodes[nx].key ELSE 0]

(* _K() is 0 for the integer keys of the tests. *)
GetNthKey(tr, n) ==
    LET nx == GetNth(tr, n)
        succeeded == nx # nullptr
    IN  [succeeded |-> succeeded,
         key |-> IF succeeded THEN tr.nodes[nx].key ELSE 0]

(***************************************************************************)
(* SpecTree: one tree object, an RBTreeSet or a DynOrderSet over std::less *)
(* or std::greater, driven by any sequence of Insert, Remove, Clear,       *)
(* Count, Size and HealthCheck calls, side by side with a reference set    *)
(* (keys) that receives the same Insert, Remove and Clear calls, as in     *)
(* BsTreeGeneric of src/test/bs_tree_test.cpp.  The record call holds the  *)
(* last call: its name, its argument, what the tree returned (ret) and,    *)
(* for Insert and Remove, what the reference set returned (ref).           *)
(***************************************************************************)
BigIntIdle ==
    /\ s = <<>> /\ t = <<>> /\ x = 0
    /\ a = BigIntDefault /\ b = BigIntDefault /\ c = BigIntDefault
    /\ res = BigIntDefault /\ out = <<>> /\ flags = NoFlags
    /\ fault = "none" /\ src = "none" /\ op = "init" /\ steps = 0

Called(fn, arg, ret, ref) == [fn |-> fn, arg |-> arg, ret |-> ret, ref |-> ref]

InitTree ==
    /\ tree \in {RBTree(cls, cm) : cls \in {"RBTreeSet", "DynOrderSet"},
                                   cm \in {"less", "greater"}}
    /\ keys = {}
    /\ call = Called("ctor", 0, 0, 0)
    /\ ft = "none" /\ elems = <<>>
    /\ BigIntIdle

DoInsert ==
    \E k \in Keys :
        LET r == IF IsDynOrder(tree) THEN DynOrderSetInsert(tree, k)
                 ELSE RBTreeSetInsert(tree, k)
        IN  /\ tree' = r.tree
            /\ keys' = keys \cup {k}
            /\ call' = Called("Insert", k, r.ret, k \notin keys)
            /\ UNCHANGED <<ft, elems, bigIntVars>>

DoRemove ==
    \E k \in Keys :
        LET r == IF IsDynOrder(tree) THEN MultiRemove(tree, k)
                 ELSE Remove(tree, k)
        IN  /\ tree' = r.tree
            /\ keys' = keys \ {k}
            /\ call' = Called("Remove", k, r.ret, IF k \in keys THEN 1 ELSE 0)
            /\ UNCHANGED <<ft, elems, bigIntVars>>

DoClear ==
    /\ tree' = Clear(tree)
    /\ keys' = {}
    /\ call' = Called("Clear", 0, 0, 0)
    /\ UNCHANGED <<ft, elems, bigIntVars>>

DoCount ==
    \E k \in Keys :
        /\ call' = Called("Count", k,
                          IF IsDynOrder(tree) THEN MultiCount(tree, k)
                          ELSE Count(tree, k), 0)
        /\ UNCHANGED <<tree, keys, ft, elems, bigIntVars>>

DoSize ==
    /\ call' = Called("Size", 0, Size(tree), 0)
    /\ UNCHANGED <<tree, keys, ft, elems, bigIntVars>>

DoHealthCheck ==
    /\ call' = Called("HealthCheck", 0, HealthCheck(tree), 0)
    /\ UNCHANGED <<tree, keys, ft, elems, bigIntVars>>

DoGetNthKey ==
    /\ IsDynOrder(tree)
    /\ \E j \in 0 .. (NumKeys + 1) :
           call' = Called("GetNthKey", j, GetNthKey(tree, j), 0)
    /\ UNCHANGED <<tree, keys, ft, elems, bigIntVars>>

DoGetPos ==
    /\ IsDynOrder(tree)
    /\ \E k \in Keys : call' = Called("GetPos", k, GetPos(tree, k), 0)
    /\ UNCHANGED <<tree, keys, ft, elems, bigIntVars>>

NextTree ==
    \/ DoInsert
    \/ DoRemove
    \/ DoClear
    \/ DoCount
    \/ DoSize
    \/ DoHealthCheck

SpecTree == InitTree /\ [][NextTree]_vars

(***************************************************************************)
(* SpecDynOrder: a DynOrderSet over std::less or std::greater, driven by   *)
(* any sequence of Insert and Remove calls and asked for positions, as in  *)
(* CheckDynOrder of src/test/bs_tree_test.cpp.                             *)
(***************************************************************************)
InitDynOrder ==
    /\ tree \in {RBTree("DynOrderSet", cm) : cm \in {"less", "greater"}}
    /\ keys = {}
    /\ call = Called("ctor", 0, 0, 0)
    /\ ft = "none" /\ elems = <<>>
    /\ BigIntIdle

NextDynOrder ==
    \/ DoInsert
    \/ DoRemove
    \/ DoGetNthKey
    \/ DoGetPos

SpecDynOrder == InitDynOrder /\ [][NextDynOrder]_vars

(***************************************************************************)
(* The claims about the trees.  The shape of a tree is read off the heap   *)
(* by definitions that do not go through HelthCheckDfs; positions are      *)
(* counted in the reference set.                                           *)
(***************************************************************************)
RECURSIVE Subtree(_, _)
Subtree(tr, n) ==
    IF n = RB_NULL THEN {}
    ELSE {n} \cup Subtree(tr, tr.nodes[n].left)
             \cup Subtree(tr, tr.nodes[n].right)

(* The numbers of black nodes met on the paths from n down to a leaf. *)
RECURSIVE BlackCounts(_, _)
BlackCounts(tr, n) ==
    IF n = RB_NULL THEN {0}
    ELSE {h + (IF tr.nodes[n].color = BLACK THEN 1 ELSE 0) :
            h \in BlackCounts(tr, tr.nodes[n].left)
                    \cup BlackCounts(tr, tr.nodes[n].right)}

NoRedRed(tr) ==
    \A n \in Subtree(tr, tr.root) :
        tr.nodes[n].color = RED =>
            /\ tr.nodes[tr.nodes[n].left].color = BLACK
            /\ tr.nodes[tr.nodes[n].right].color = BLACK

SizeFieldsAddUp(tr) ==
    \A n \in Subtree(tr, tr.root) :
        tr.nodes[n].size =
            tr.nodes[tr.nodes[n].left].size + tr.nodes[tr.nodes[n].right].size
                + tr.nodes[n].cnt

(* A Remove has deleted a node: only Transplant writes the sentinel's p. *)
HasRemoved(tr) == tr.nodes[RB_NULL].p # nullptr

(* q is ordered strictly before k by the set's comparator. *)
Precedes(tr, q, k) == IF tr.cmp = "less" THEN q < k ELSE q > k

Rank(tr, k) == Cardinality({q \in keys : Precedes(tr, q, k)})

(* C16: after any sequence of Insert, Remove and Clear calls on an         *)
(* RBTreeSet or a DynOrderSet, HealthCheck() returns true, and what it     *)
(* stands for holds of the heap: every path from the root to a leaf passes *)
(* the same number of black nodes, no red node has a red child, the        *)
(* number of nodes is Size(), and in a DynOrderSet every node's size is    *)
(* the size of its left subtree plus that of its right subtree plus its    *)
(* own count.                                                              *)
C16_Healthy ==
    /\ HealthCheck(tree)
    /\ call.fn = "HealthCheck" => call.ret = TRUE
    /\ Cardinality(BlackCounts(tree, tree.root)) = 1
    /\ NoRedRed(tree)
    /\ Cardinality(Subtree(tree, tree.root)) = Size(tree)
    /\ IsDynOrder(tree) => SizeFieldsAddUp(tree)

C16_Witness ==
    /\ call.fn = "HealthCheck" /\ call.ret = TRUE
    /\ IsDynOrder(tree) /\ HasRemoved(tree) /\ Size(tree) >= 4

(* C17: side by side with the reference set, an RBTreeSet keeps Size()     *)
(* equal to the reference set's cardinality, Insert returns true exactly   *)
(* when the key was absent, Remove returns 1 exactly when the key was      *)
(* present and 0 otherwise, and Count(k) is 1 exactly for the keys of the  *)
(* reference set.                                                          *)
C17_MatchesReferenceSet ==
    tree.cls = "RBTreeSet" =>
        /\ Size(tree) = Cardinality(keys)
        /\ call.fn = "Size" => call.ret = Cardinality(keys)
        /\ call.fn = "Insert" => call.ret = call.ref
        /\ call.fn = "Remove" => call.ret = call.ref
        /\ \A k \in Keys : Count(tree, k) = IF k \in keys THEN 1 ELSE 0
        /\ call.fn = "Count" =>
               call.ret = IF call.arg \in keys THEN 1 ELSE 0

C17_Witness ==
    /\ tree.cls = "RBTreeSet" /\ call.fn = "Remove" /\ call.ret = 1
    /\ Cardinality(keys) >= 3

(* C18: in a DynOrderSet, GetNthKey(j, succeeded) returns the key at the   *)
(* 0-based position j of the keys sorted by the comparator and sets        *)
(* succeeded for every j < Size(), and clears succeeded for every          *)
(* j >= Size().                                                            *)
C18_NthKey ==
    IsDynOrder(tree) =>
        /\ \A j \in 0 .. (NumKeys + 1) :
               LET r == GetNthKey(tree, j)
               IN  IF j < Size(tree)
                   THEN /\ r.succeeded
                        /\ r.key \in keys
                        /\ Rank(tree, r.key) = j
                   ELSE ~r.succeeded
        /\ call.fn = "GetNthKey" => call.ret = GetNthKey(tree, call.arg)

C18_Witness ==
    /\ IsDynOrder(tree) /\ HasRemoved(tree) /\ tree.cmp = "greater"
    /\ call.fn = "GetNthKey" /\ call.arg >= 2 /\ call.ret.succeeded

(* C19: in a DynOrderSet, GetPos(key, exists) on a present key returns the *)
(* number of keys ordered strictly before it and sets exists, so that      *)
(* GetPos(GetNthKey(j)) = j for every j < Size(); on an absent key it      *)
(* clears exists.                                                          *)
C19_Pos ==
    IsDynOrder(tree) =>
        /\ \A k \in Keys :
               LET r == GetPos(tree, k)
               IN  IF k \in keys THEN r.exists /\ r.pos = Rank(tree, k)
                   ELSE ~r.exists
        /\ \A j \in 0 .. (NumKeys + 1) :
               j < Size(tree) =>
                   GetPos(tree, GetNthKey(tree, j).key).pos = j
        /\ call.fn = "GetPos" => call.ret = GetPos(tree, call.arg)

C19_Witness ==
    /\ IsDynOrder(tree) /\ HasRemoved(tree)
    /\ call.fn = "GetPos" /\ call.ret.exists /\ call.ret.pos >= 2

(***************************************************************************)
(* FenwickTree<int> (src/struct/segment_tree.h, the variant that           *)
(* accumulates in the greater indexes).  The object is its vector m_sum_,  *)
(* a function on 0 .. n; indices are size_t values of SizeBits bits, and   *)
(* x & (-x) is computed on their bits.                                     *)
(***************************************************************************)
MaxN == 4            \* most elements of a Fenwick tree

MaxElem == 1         \* elements stay within -MaxElem .. MaxElem

SizeBits == 5        \* width of size_t (64 in the source)

RECURSIVE BitAnd(_, _)
BitAnd(u, v) ==
    IF u = 0 \/ v = 0 THEN 0
    ELSE (u % 2) * (v % 2) + 2 * BitAnd(u \div 2, v \div 2)

(* -x on size_t *)
Negate(q) == (Pow2(SizeBits) - q) % Pow2(SizeBits)

prev(q) == q - BitAnd(q, Negate(q))

(* A next that walks every index above q. *)
NextByOne(q) == (q + 1) % Pow2(SizeBits)

next(q) == (q + BitAnd(q, Negate(q))) % Pow2(SizeBits)

(* m_sum_.size() *)
VecSize(f) == Cardinality(DOMAIN f)

(* for (...; i < m_sum_.size(); i = next(i)) m_sum_[i] += value; *)
RECURSIVE UpdateLoop(_, _, _)
UpdateLoop(f, i, value) ==
    IF i < VecSize(f)
    THEN Then([f EXCEPT ![i] = @ + value], LAMBDA g :
              UpdateLoop(g, next(i), value))
    ELSE f

Update(f, i, value) == UpdateLoop(f, i + 1, value)

(* for (auto i = ...; i != 0; i = prev(i)) S += m_sum_[i]; *)
RECURSIVE PrefixLoop(_, _)
PrefixLoop(f, i) == IF i # 0 THEN f[i] + PrefixLoop(f, prev(i)) ELSE 0

Query(f, l, r) == PrefixLoop(f, r + 1) - PrefixLoop(f, l)

(* FenwickTree(size_t n) *)
FenwickTree(n) == [i \in 0 .. n |-> 0]

(* FenwickTree(std::vector<T> arr): Update(i, arr[i]) for i = 0, 1, ...   *)
RECURSIVE FillFrom(_, _, _)
FillFrom(f, arr, i) ==
    IF i < Len(arr)
    THEN Then(Update(f, i, arr[i + 1]), LAMBDA g : FillFrom(g, arr, i + 1))
    ELSE f

FenwickTreeFrom(arr) == FillFrom(FenwickTree(Len(arr)), arr, 0)

(***************************************************************************)
(* SpecFenwick: a tree built empty over n elements or from an array, then  *)
(* any sequence of Update and Query calls; elems is the array the tree     *)
(* stands for (element i at elems[i + 1]), src the constructor used.       *)
(***************************************************************************)
Elems == (0 - MaxElem) .. MaxElem

Arrays == UNION {[1 .. n -> Elems] : n \in 0 .. MaxN}

InitFenwick ==
    /\ \/ /\ src = "size"
          /\ \E n \in 0 .. MaxN :
                 /\ ft = FenwickTree(n)
                 /\ elems = [i \in 1 .. n |-> 0]
       \/ /\ src = "array"
          /\ \E arr \in Arrays :
                 /\ ft = FenwickTreeFrom(arr)
                 /\ elems = arr
    /\ call = Called("ctor", 0, 0, 0)
    /\ tree = "none" /\ keys = {}
    /\ s = <<>> /\ t = <<>> /\ x = 0
    /\ a = BigIntDefault /\ b = BigIntDefault /\ c = BigIntDefault
    /\ res = BigIntDefault /\ out = <<>> /\ flags = NoFlags
    /\ fault = "none" /\ op = "init" /\ steps = 0

DoUpdate ==
    \E i \in 0 .. (Len(elems) - 1), v \in Elems :
        /\ elems[i + 1] + v \in Elems
        /\ ft' = Update(ft, i, v)
        /\ elems' = [elems EXCEPT ![i + 1] = @ + v]
        /\ call' = Called("Update", i, 0, 0)
        /\ UNCHANGED <<tree, keys, bigIntVars>>

DoQuery ==
    \E l \in 0 .. (Len(elems) - 1), r \in 0 .. (Len(elems) - 1) :
        /\ l <= r
        /\ call' = Called("Query", <<l, r>>, Query(ft, l, r), 0)
        /\ UNCHANGED <<tree, keys, ft, elems, bigIntVars>>

NextFenwick ==
    \/ DoUpdate
    \/ DoQuery

SpecFenwick == InitFenwick /\ [][NextFenwick]_vars

RECURSIVE RangeSum(_, _, _)
RangeSum(arr, l, r) ==
    IF l > r THEN 0 ELSE arr[l + 1] + RangeSum(arr, l + 1, r)

(* C20: for a FenwickTree over n elements, built empty or from an array,   *)
(* and any sequence of Update(i, v) calls with i < n, Query(l, r) returns  *)
(* the sum of the current elements l .. r for all 0 <= l <= r < n, the     *)
(* current element i being its initial value plus every v added to it.     *)
C20_RangeSums ==
    /\ \A l \in 0 .. (Len(elems) - 1), r \in 0 .. (Len(elems) - 1) :
           l <= r => Query(ft, l, r) = RangeSum(elems, l, r)
    /\ call.fn = "Query" =>
           call.ret = RangeSum(elems, call.arg[1], call.arg[2])

(* Built empty, the tree owes every non-zero element to an Update. *)
C20_Witness ==
    /\ src = "size" /\ Len(elems) = MaxN
    /\ call.fn = "Query" /\ call.arg[1] >= 1 /\ call.arg[2] > call.arg[1]
    /\ call.ret # 0

(***************************************************************************)
(* RadixSort of algo/sorting.h.  An array of T is held as the sequence of  *)
(* its elements' bit patterns (0 .. 2^TypeBits - 1); the element type ty   *)
(* ("signed" or "unsigned") says how a pattern is read as a number.  The   *)
(* source sorts sizeof(T) * 8 bits in digits of radix_bits bits; here the  *)
(* digit width is the bound radix_bits and T is the narrowest type the     *)
(* static_assert of line 26 admits, two digits wide.                       *)
(***************************************************************************)
radix_bits == 2      \* bits per digit (8 by default in the source)

MaxArr == 3          \* longest array sorted

(* sizeof(T) * 8 *)
TypeBits == 2 * radix_bits

(* constexpr size_t mask = (1U << radix_bits) - 1U *)
mask == Pow2(radix_bits) - 1

(* The number a bit pattern stands for in type ty (two's complement). *)
AsT(p, ty) ==
    IF ty = "signed" /\ p >= Pow2(TypeBits - 1) THEN p - Pow2(TypeBits) ELSE p

(* The digit read without the shift: every pass sorts by the lowest digit. *)
DigitUnshifted(p, shift, ty) ==
    (AsT(p, ty) % Pow2(SizeBits)) % (mask + 1)

(* static_cast<size_t>(nums[i] >> shift) & mask: the shift is arithmetic   *)
(* for a signed T, the cast wraps to the width of size_t.                  *)
Digit(p, shift, ty) ==
    ((AsT(p, ty) \div Pow2(shift)) % Pow2(SizeBits)) % (mask + 1)

(* for (i = 0; i < n; i++) count[digit of nums[i]]++ *)
RECURSIVE Counting(_, _, _, _, _)
Counting(count, nums, shift, ty, i) ==
    IF i < Len(nums)
    THEN Then([count EXCEPT ![Digit(nums[i + 1], shift, ty)] = @ + 1],
              LAMBDA cn : Counting(cn, nums, shift, ty, i + 1))
    ELSE count

(* for (i = 0; i < mask;) { temp = count[i++]; count[i] += temp; } *)
RECURSIVE CumulativeSum(_, _)
CumulativeSum(count, i) ==
    IF i < mask
    THEN Then([count EXCEPT ![i + 1] = @ + count[i]],
              LAMBDA cn : CumulativeSum(cn, i + 1))
    ELSE count

(* for (i = (mask >> 1) + 1; i != (mask >> 1);)                            *)
(*    { temp = count[i++]; i &= mask; count[i] += temp; }                  *)
RECURSIVE SignedCumulativeSum(_, _)
SignedCumulativeSum(count, i) ==
    IF i # mask \div 2
    THEN Then([count EXCEPT ![(i + 1) % (mask + 1)] = @ + count[i]],
              LAMBDA cn : SignedCumulativeSum(cn, (i + 1) % (mask + 1)))
    ELSE count

(* Lines 40-63: the bucket positions of one pass. *)
Buckets(count, shift, ty) ==
    IF ty = "signed" /\ ~(shift + radix_bits < TypeBits)
    THEN SignedCumulativeSum(count, mask \div 2 + 1)
    ELSE CumulativeSum(count, 0)

(* for (i = n; i-- != 0;) aux[--count[idx]] = nums[i]; the state threaded  *)
(* through the loop is the pair of count and aux.                          *)
RECURSIVE Scatter(_, _, _, _, _)
Scatter(st, nums, shift, ty, i) ==
    IF i # 0
    THEN LET idx == Digit(nums[i], shift, ty)
         IN  Then([count |-> [st.count EXCEPT ![idx] = @ - 1],
                   aux   |-> [st.aux EXCEPT ![st.count[idx]] = nums[i]]],
                  LAMBDA st1 : Scatter(st1, nums, shift, ty, i - 1))
    ELSE st

(* for (i = n; i-- != 0;) aux[n - count[idx]--] = nums[i] *)
RECURSIVE ScatterReverse(_, _, _, _, _)
ScatterReverse(st, nums, shift, ty, i) ==
    IF i # 0
    THEN LET idx == Digit(nums[i], shift, ty)
         IN  Then([count |-> [st.count EXCEPT ![idx] = @ - 1],
                   aux   |-> [st.aux EXCEPT
                                 ![Len(nums) - st.count[idx] + 1] = nums[i]]],
                  LAMBDA st1 : ScatterReverse(st1, nums, shift, ty, i - 1))
    ELSE st

(* One iteration of the outer loop, lines 34-77: aux after the pass. *)
RadixPass(nums, aux, shift, ty, reverse) ==
    Then(Buckets(Counting([d \in 0 .. mask |-> 0], nums, shift, ty, 0),
                 shift, ty),
         LAMBDA cn :
             IF reverse /\ shift + radix_bits = TypeBits
             THEN ScatterReverse([count |-> cn, aux |-> aux], nums, shift, ty,
                                 Len(nums)).aux
             ELSE Scatter([count |-> cn, aux |-> aux], nums, shift, ty,
                          Len(nums)).aux)

(* The outer loop.  mem holds the two buffers, the caller's array and the  *)
(* one from make_unique; mem.nums and mem.aux are the local pointers,      *)
(* which std::swap exchanges after every pass.                             *)
RECURSIVE RadixLoop(_, _, _, _)
RadixLoop(mem, shift, ty, reverse) ==
    IF shift < TypeBits
    THEN Then([mem EXCEPT ![mem.aux] = RadixPass(mem[mem.nums], mem[mem.aux],
                                                 shift, ty, reverse)],
              LAMBDA m1 :
                  RadixLoop([m1 EXCEPT !.nums = m1.aux, !.aux = m1.nums],
                            shift + radix_bits, ty, reverse))
    ELSE mem

(* RadixSort(nums, n, reverse): the caller's array when it returns. *)
RadixSort(arr, ty, reverse) ==
    RadixLoop([caller |-> arr, heap |-> [i \in 1 .. Len(arr) |-> 0],
               nums |-> "caller", aux |-> "heap"],
              0, ty, reverse).caller

(***************************************************************************)
(* SpecRadix: any array of at most MaxArr elements, sorted as signed or    *)
(* as unsigned integers, ascending or descending, once (as each array of   *)
(* src/test/sorting_test.cpp is).  elems is the caller's array; call.arg   *)
(* records the array as it was before the call.                            *)
(***************************************************************************)
(* The digits at the ends of the unsigned and of the signed bucket walk    *)
(* (with radix_bits = 2 these are all four digits), and the elements made  *)
(* of such digits.                                                         *)
EdgeDigits == {0, mask \div 2, mask \div 2 + 1, mask}

Patterns == {hi * (mask + 1) + lo : hi \in EdgeDigits, lo \in EdgeDigits}

PatternArrays == UNION {[1 .. n -> Patterns] : n \in 0 .. MaxArr}

AlgoIdle == tree = "none" /\ keys = {} /\ ft = "none" /\ BigIntIdle

InitRadix ==
    /\ elems \in PatternArrays
    /\ call = Called("none", <<>>, 0, 0)
    /\ AlgoIdle

DoRadixSort ==
    \E ty \in {"signed", "unsigned"}, reverse \in BOOLEAN :
        /\ call.fn = "none"
        /\ elems' = RadixSort(elems, ty, reverse)
        /\ call' = Called("RadixSort",
                          [nums |-> elems, T |-> ty, reverse |-> reverse], 0, 0)
        /\ UNCHANGED <<tree, keys, ft, bigIntVars>>

SpecRadix == InitRadix /\ [][DoRadixSort]_vars

(* std::sort with std::less (or std::greater when desc): the elements of   *)
(* arr in the order of the numbers they stand for, by insertion.           *)
RECURSIVE InsertSorted(_, _, _, _)
InsertSorted(sorted, p, ty, desc) ==
    IF sorted = <<>> THEN <<p>>
    ELSE IF (IF desc THEN AsT(p, ty) >= AsT(Head(sorted), ty)
                     ELSE AsT(p, ty) <= AsT(Head(sorted), ty))
         THEN <<p>> \o sorted
    ELSE <<Head(sorted)>> \o InsertSorted(Tail(sorted), p, ty, desc)

RECURSIVE StdSort(_, _, _)
StdSort(arr, ty, desc) ==
    IF arr = <<>> THEN <<>>
    ELSE InsertSorted(StdSort(Tail(arr), ty, desc), Head(arr), ty, desc)

Occurrences(arr, p) == Cardinality({i \in 1 .. Len(arr) : arr[i] = p})

(* C21: RadixSort leaves in the caller's array a permutation of the input  *)
(* in ascending order of value (descending when reverse is true), the      *)
(* same array std::sort gives with the matching comparator; for a signed   *)
(* type every negative value comes below every non-negative one.           *)
C21_RadixSorts ==
    call.fn = "RadixSort" =>
        LET before == call.arg.nums
            ty == call.arg.T
            desc == call.arg.reverse
        IN  /\ Len(elems) = Len(before)
            /\ \A p \in Patterns : Occurrences(elems, p) = Occurrences(before, p)
            /\ \A i \in 1 .. (Len(elems) - 1) :
                   IF desc THEN AsT(elems[i], ty) >= AsT(elems[i + 1], ty)
                           ELSE AsT(elems[i], ty) <= AsT(elems[i + 1], ty)
            /\ elems = StdSort(before, ty, desc)
            /\ (ty = "signed" /\ ~desc) =>
                   \A i \in 1 .. Len(elems), j \in 1 .. Len(elems) :
                       (AsT(elems[i], ty) < 0 /\ AsT(elems[j], ty) >= 0)
                           => i < j

(* A signed descending sort of a full-length unsorted array that holds a   *)
(* negative, a non-negative and two values that differ in one digit only.  *)
C21_Witness ==
    /\ call.fn = "RadixSort" /\ call.arg.T = "signed" /\ call.arg.reverse
    /\ Len(elems) = MaxArr /\ elems # call.arg.nums
    /\ AsT(elems[1], "signed") > 0 /\ AsT(elems[MaxArr], "signed") < 0
    /\ \E i \in 1 .. (MaxArr - 1) :
           /\ elems[i] # elems[i + 1]
           /\ elems[i] \div Pow2(radix_bits) = elems[i + 1] \div Pow2(radix_bits)

(***************************************************************************)
(* Suffix arrays of algo/string_algo.h.  A text of n items is a sequence;  *)
(* the item text[i] of the source is At(text, i).  Items are non-negative  *)
(* integers (a char of a std::string, or the size_t names that ComputeSaIS *)
(* hands to itself); all numbers stay far below 2^64.                      *)
(***************************************************************************)
MaxText == 6         \* longest text
TopItem == 2         \* items are 0 .. TopItem

SaRadixBits == 8     \* radix_bits of SaRadixSort
ByteBits == 8        \* the 8 of "t >>= 8, shift += 8"

At(v, i) == v[i + 1]

Put(v, i, e) == [v EXCEPT ![i + 1] = e]

RECURSIVE BitOr(_, _)
BitOr(u, v) ==
    IF u = 0 THEN v
    ELSE IF v = 0 THEN u
    ELSE (IF u % 2 = 1 \/ v % 2 = 1 THEN 1 ELSE 0)
             + 2 * BitOr(u \div 2, v \div 2)

(* constexpr size_t mask = (1U << radix_bits) - 1U *)
SaMask == Pow2(SaRadixBits) - 1

(* (nums[i].second >> shift) & mask *)
SaDigit(pair, shift) == (pair.second \div Pow2(shift)) % (SaMask + 1)

(* for (i = 0; i < n; i++) count[digit of nums[i]]++ *)
RECURSIVE SaCounting(_, _, _, _)
SaCounting(count, nums, shift, i) ==
    IF i < Len(nums)
    THEN Then([count EXCEPT ![SaDigit(At(nums, i), shift)] = @ + 1],
              LAMBDA cn : SaCounting(cn, nums, shift, i + 1))
    ELSE count

(* for (i = 0; i < mask;) { temp = count[i++]; count[i] += temp; }: the    *)
(* iterations i = lo .. hi - 1 in order, the first half and then the rest  *)
(* (the loop has 255 iterations; halving keeps the evaluation shallow).    *)
RECURSIVE SaCumulativeSum(_, _, _)
SaCumulativeSum(count, lo, hi) ==
    IF hi <= lo THEN count
    ELSE IF hi = lo + 1 THEN [count EXCEPT ![lo + 1] = @ + count[lo]]
    ELSE Then(SaCumulativeSum(count, lo, (lo + hi) \div 2),
              LAMBDA cn : SaCumulativeSum(cn, (lo + hi) \div 2, hi))

(* for (i = n; i-- != 0;) aux[--count[digit of nums[i]]] = nums[i] *)
RECURSIVE SaScatter(_, _, _, _)
SaScatter(st, nums, shift, i) ==
    IF i # 0
    THEN LET idx == SaDigit(nums[i], shift)
         IN  Then([count |-> [st.count EXCEPT ![idx] = @ - 1],
                   aux   |-> [st.aux EXCEPT ![st.count[idx]] = nums[i]]],
                  LAMBDA st1 : SaScatter(st1, nums, shift, i - 1))
    ELSE st

(* The loop of SaRadixSort; mem holds the caller's buffer and the one from *)
(* make_unique, mem.nums and mem.aux say which one each pointer names.     *)
RECURSIVE SaRadixLoop(_, _, _)
SaRadixLoop(mem, shift, max_shift) ==
    IF shift < max_shift
    THEN Then(SaCounting([d \in 0 .. SaMask |-> 0], mem[mem.nums], shift, 0),
         LAMBDA c0 :
         Then(SaCumulativeSum(c0, 0, SaMask),
         LAMBDA cn :
         Then([mem EXCEPT ![mem.aux] =
                   SaScatter([count |-> cn, aux |-> mem[mem.aux]],
                             mem[mem.nums], shift, Len(mem[mem.nums])).aux],
         LAMBDA m1 :
             SaRadixLoop([m1 EXCEPT !.nums = m1.aux, !.aux = m1.nums],
                         shift + SaRadixBits, max_shift))))
    ELSE mem

(* SaRadixSort(nums, n, max_shift): the caller's buffer when it returns. *)
SaRadixSort(arr, max_shift) ==
    SaRadixLoop([caller |-> arr,
                 heap |-> [i \in 1 .. Len(arr) |-> [first |-> 0, second |-> 0]],
                 nums |-> "caller", aux |-> "heap"],
                0, max_shift).caller

(* for (auto t = n; t; t >>= 8, shift += 8); *)
RECURSIVE ShiftFor(_, _)
ShiftFor(tt, shift) ==
    IF tt # 0 THEN ShiftFor(tt \div Pow2(ByteBits), shift + ByteBits) ELSE shift

(* Lines 89-92: rank of suffix i fused with the rank of suffix i + l. *)
Fusion(suffix_rank, l, shift) ==
    [i \in 1 .. Len(suffix_rank) |->
        [first  |-> i - 1,
         second |-> BitOr(suffix_rank[i] * Pow2(shift),
                          IF (i - 1) + l < Len(suffix_rank)
                          THEN At(suffix_rank, (i - 1) + l) ELSE 0)]]

(* Lines 98-102: the ranks read off the sorted fusion. *)
RECURSIVE Rerank(_, _, _, _)
Rerank(suffix_rank, fusion, i, curr_rank) ==
    IF i < Len(fusion)
    THEN Then(IF At(fusion, i - 1).second # At(fusion, i).second
              THEN curr_rank + 1 ELSE curr_rank,
         LAMBDA cr :
             Rerank(Put(suffix_rank, At(fusion, i).first, cr), fusion,
                    i + 1, cr))
    ELSE suffix_rank

(* The loop "for (size_t l = 1;;)" of lines 88-103 and lines 105-108. *)
RECURSIVE SaLoop(_, _, _)
SaLoop(suffix_rank, l, shift) ==
    Then(SaRadixSort(Fusion(suffix_rank, l, shift), shift * 2),
    LAMBDA fusion :
        IF 2 * l >= Len(suffix_rank)
        THEN [i \in 1 .. Len(fusion) |-> fusion[i].first]
        ELSE SaLoop(Rerank(Put(suffix_rank, At(fusion, 0).first, 1),
                           fusion, 1, 1),
                    2 * l, shift))

(* ComputeSa(s, n); suffix_rank[i] = s[i] at first. *)
ComputeSa(text) == SaLoop(text, 1, ShiftFor(Len(text), 0))

(* ComputeStype: stype[i] is true when suffix i is smaller than suffix     *)
(* i + 1 (S-type).  for (i = n - 2; i < n; i--) stops when i wraps.        *)
RECURSIVE StypeLoop(_, _, _)
StypeLoop(stype, text, i) ==
    IF i >= 0 /\ i < Len(text)
    THEN Then(IF At(text, i) < At(text, i + 1) THEN Put(stype, i, TRUE)
              ELSE IF At(text, i) = At(text, i + 1)
                   THEN Put(stype, i, At(stype, i + 1))
              ELSE stype,
         LAMBDA st1 : StypeLoop(st1, text, i - 1))
    ELSE stype

ComputeStype(text) ==
    StypeLoop([i \in 1 .. Len(text) |-> FALSE], text, Len(text) - 2)

(* IsEqualLms(text, n, a, b, stype), from the first a++, b++ on. *)
RECURSIVE EqualLmsLoop(_, _, _, _, _)
EqualLmsLoop(text, pa, pb, stype, hit_l) ==
    LET n == Len(text)
    IN  IF pb < n /\ At(stype, pb) /\ pa = n THEN TRUE
        ELSE IF pa < n /\ At(stype, pa) /\ pb = n THEN TRUE
        ELSE IF pa = n \/ pb = n \/ At(text, pa) # At(text, pb)
                \/ At(stype, pa) # At(stype, pb) THEN FALSE
        ELSE IF At(stype, pa)
             THEN (IF hit_l THEN TRUE
                   ELSE EqualLmsLoop(text, pa + 1, pb + 1, stype, hit_l))
        ELSE EqualLmsLoop(text, pa + 1, pb + 1, stype, TRUE)

IsEqualLms(text, pa, pb, stype) ==
    IF At(text, pa) # At(text, pb) THEN FALSE
    ELSE EqualLmsLoop(text, pa + 1, pb + 1, stype, FALSE)

(* InducedSorting, "Fill in LMS terms": lms from its last entry to its     *)
(* first, each put at the end of its item's bucket.  The state threaded    *)
(* through each loop is starts_copy (sc) and sa.                           *)
RECURSIVE FillLms(_, _, _, _, _)
FillLms(st, text, min_item, lms, k) ==
    IF k >= 1
    THEN LET bucket == At(text, lms[k]) - min_item + 1
         IN  Then([sc |-> Put(st.sc, bucket, At(st.sc, bucket) - 1),
                   sa |-> Put(st.sa, At(st.sc, bucket) - 1, lms[k])],
                  LAMBDA st1 : FillLms(st1, text, min_item, lms, k - 1))
    ELSE st

(* "Fill in L", the scan for (i = 0; i < n; i++). *)
RECURSIVE FillL(_, _, _, _, _)
FillL(st, text, min_item, stype, i) ==
    LET n == Len(text)
    IN  IF i < n
        THEN Then(IF At(st.sa, i) # n /\ At(st.sa, i) > 0
                     /\ ~At(stype, At(st.sa, i) - 1)
                  THEN LET bucket == At(text, At(st.sa, i) - 1) - min_item
                       IN  [sc |-> Put(st.sc, bucket, At(st.sc, bucket) + 1),
                            sa |-> Put(st.sa, At(st.sc, bucket),
                                       At(st.sa, i) - 1)]
                  ELSE st,
             LAMBDA st1 : FillL(st1, text, min_item, stype, i + 1))
        ELSE st

(* "Fill in S", the scan for (i = n - 1; i < n; i--). *)
RECURSIVE FillS(_, _, _, _, _)
FillS(st, text, min_item, stype, i) ==
    LET n == Len(text)
    IN  IF i >= 0 /\ i < n
        THEN Then(IF At(st.sa, i) # n /\ At(st.sa, i) > 0
                     /\ At(stype, At(st.sa, i) - 1)
                  THEN LET bucket == At(text, At(st.sa, i) - 1) - min_item + 1
                       IN  [sc |-> Put(st.sc, bucket, At(st.sc, bucket) - 1),
                            sa |-> Put(st.sa, At(st.sc, bucket) - 1,
                                       At(st.sa, i) - 1)]
                  ELSE st,
             LAMBDA st1 : FillS(st1, text, min_item, stype, i - 1))
        ELSE st

(* InducedSorting(text, n, min_item, range, starts, stype, lms, sa): sa    *)
(* when it returns.                                                        *)
InducedSorting(text, min_item, starts, stype, lms, sa) ==
    LET n == Len(text)
        last == At(text, n - 1) - min_item
    IN  Then(FillLms([sc |-> starts, sa |-> sa], text, min_item, lms,
                     Len(lms)).sa,
        LAMBDA sa1 :
        Then(FillL([sc |-> Put(starts, last, At(starts, last) + 1),
                    sa |-> Put(sa1, At(starts, last), n - 1)],
                   text, min_item, stype, 0).sa,
        LAMBDA sa2 :
             FillS([sc |-> starts, sa |-> sa2], text, min_item, stype,
                   n - 1).sa))

(* Lines 225-230 *)
RECURSIVE MinOf(_)
MinOf(text) ==
    IF Len(text) = 1 THEN text[1]
    ELSE LET m == MinOf(Tail(text))
         IN  IF text[1] < m THEN text[1] ELSE m

RECURSIVE MaxOf(_)
MaxOf(text) ==
    IF Len(text) = 1 THEN text[1]
    ELSE LET m == MaxOf(Tail(text))
         IN  IF text[1] > m THEN text[1] ELSE m

(* Lines 238-240: counts and needs_sorting |= counts[text[i] - min]++ *)
RECURSIVE Bucketize(_, _, _, _)
Bucketize(st, text, min_item, i) ==
    IF i < Len(text)
    THEN LET bucket == At(text, i) - min_item
         IN  Then([counts |-> Put(st.counts, bucket, At(st.counts, bucket) + 1),
                   needs_sorting |-> BitOr(st.needs_sorting,
                                           At(st.counts, bucket))],
                  LAMBDA st1 : Bucketize(st1, text, min_item, i + 1))
    ELSE st

(* Lines 244-247: rev[text[i] - min_item] = i *)
RECURSIVE RevLoop(_, _, _, _)
RevLoop(rev, text, min_item, i) ==
    IF i < Len(text)
    THEN Then(Put(rev, At(text, i) - min_item, i),
              LAMBDA r1 : RevLoop(r1, text, min_item, i + 1))
    ELSE rev

(* Lines 248-251: sa[j] = rev[i]; j += rev[i] < n *)
RECURSIVE Compact(_, _, _, _)
Compact(sa, rev, i, j) ==
    IF i < Len(rev)
    THEN Then(Put(sa, j, At(rev, i)),
              LAMBDA sa1 : Compact(sa1, rev, i + 1,
                                   IF At(rev, i) < Len(sa) THEN j + 1 ELSE j))
    ELSE sa

(* std::partial_sum(counts.begin(), counts.end(), starts.begin() + 1) *)
RECURSIVE PartialSum(_, _, _)
PartialSum(starts, counts, i) ==
    IF i < Len(counts)
    THEN Then(Put(starts, i + 1,
                  (IF i = 0 THEN 0 ELSE At(starts, i)) + At(counts, i)),
              LAMBDA s1 : PartialSum(s1, counts, i + 1))
    ELSE starts

(* Lines 261-266 *)
RECURSIVE LmsFrom(_, _)
LmsFrom(stype, i) ==
    IF i < Len(stype)
    THEN (IF At(stype, i) /\ ~At(stype, i - 1) THEN <<i>> ELSE <<>>)
             \o LmsFrom(stype, i + 1)
    ELSE <<>>

(* Lines 272-278 *)
RECURSIVE LmsBlocks(_, _, _)
LmsBlocks(sa, stype, i) ==
    IF i < Len(sa)
    THEN (IF At(sa, i) > 0 /\ At(sa, i) # Len(sa) /\ At(stype, At(sa, i))
             /\ ~At(stype, At(sa, i) - 1)
          THEN <<At(sa, i)>> ELSE <<>>)
             \o LmsBlocks(sa, stype, i + 1)
    ELSE <<>>

(* Lines 283-290: the names of the LMS blocks, written into sa. *)
RECURSIVE NameBlocks(_, _, _, _, _, _)
NameBlocks(sa, text, stype, lms_blocks, i, lms_numbering) ==
    IF i < Len(lms_blocks)
    THEN Then(IF ~IsEqualLms(text, At(lms_blocks, i - 1), At(lms_blocks, i),
                             stype)
              THEN lms_numbering + 1 ELSE lms_numbering,
         LAMBDA nb :
             NameBlocks(Put(sa, At(lms_blocks, i), nb), text, stype,
                        lms_blocks, i + 1, nb))
    ELSE sa

(* ComputeSaIS(text, n) *)
RECURSIVE ComputeSaIS(_)
ComputeSaIS(text) ==
    LET n == Len(text)
        sa0 == [i \in 1 .. n |-> n]
    IN  IF n = 0 THEN sa0
        ELSE
        Then(MinOf(text), LAMBDA min_item :
        Then(MaxOf(text) - min_item + 1, LAMBDA range :
        Then(Bucketize([counts |-> [i \in 1 .. range |-> 0],
                        needs_sorting |-> 0], text, min_item, 0),
        LAMBDA bk :
            IF bk.needs_sorting = 0
            THEN Compact(sa0, RevLoop([i \in 1 .. range |-> n], text,
                                      min_item, 0), 0, 0)
            ELSE
            Then(PartialSum([i \in 1 .. (range + 1) |-> 0], bk.counts, 0),
            LAMBDA starts :
            Then(ComputeStype(text), LAMBDA stype :
            Then(LmsFrom(stype, 1), LAMBDA lms :
            Then(InducedSorting(text, min_item, starts, stype, lms, sa0),
            LAMBDA sa1 :
                IF Len(lms) > 1
                THEN
                Then(LmsBlocks(sa1, stype, 0), LAMBDA lms_blocks :
                Then(NameBlocks(Put(sa1, At(lms_blocks, 0), 0), text, stype,
                                lms_blocks, 1, 0),
                LAMBDA sa2 :
                Then(ComputeSaIS([k \in 1 .. Len(lms) |-> At(sa2, lms[k])]),
                LAMBDA sub_sa :
                    InducedSorting(text, min_item, starts, stype,
                                   [k \in 1 .. Len(sub_sa) |->
                                       At(lms, sub_sa[k])],
                                   sa0))))
                ELSE sa1)))))))

(***************************************************************************)
(* SpecSuffix: any text of 1 .. MaxText items, handed to ComputeSa or to   *)
(* ComputeSaIS; elems is the text, call.ret the array returned.            *)
(***************************************************************************)
Items == 0 .. TopItem

Texts == UNION {[1 .. n -> Items] : n \in 1 .. MaxText}

InitSuffix ==
    /\ elems \in Texts
    /\ call = Called("none", <<>>, 0, 0)
    /\ AlgoIdle

DoComputeSa ==
    /\ call.fn = "none"
    /\ call' = Called("ComputeSa", elems, ComputeSa(elems), 0)
    /\ UNCHANGED <<tree, keys, ft, elems, bigIntVars>>

DoComputeSaIS ==
    /\ call.fn = "none"
    /\ call' = Called("ComputeSaIS", elems, ComputeSaIS(elems), 0)
    /\ UNCHANGED <<tree, keys, ft, elems, bigIntVars>>

NextSuffix ==
    \/ DoComputeSa
    \/ DoComputeSaIS

SpecSuffix == InitSuffix /\ [][NextSuffix]_vars

(* Suffix i of text is below suffix j in lexicographic order; a suffix     *)
(* that is a proper prefix of another is below it.                         *)
RECURSIVE SuffixLess(_, _, _)
SuffixLess(text, i, j) ==
    IF j >= Len(text) THEN FALSE
    ELSE IF i >= Len(text) THEN TRUE
    ELSE IF At(text, i) # At(text, j) THEN At(text, i) < At(text, j)
    ELSE SuffixLess(text, i + 1, j + 1)

(* The start positions of the suffixes in ascending order. *)
SuffixArray(text) ==
    [k \in 1 .. Len(text) |->
        CHOOSE i \in 0 .. (Len(text) - 1) :
            Cardinality({j \in 0 .. (Len(text) - 1) : SuffixLess(text, j, i)})
                = k - 1]

(* C22: for every non-empty text ComputeSa and ComputeSaIS return the same *)
(* array, the start positions 0 .. n-1 of the text's suffixes in ascending *)
(* lexicographic order.                                                    *)
C22_SameSuffixArray ==
    call.fn \in {"ComputeSa", "ComputeSaIS"} =>
        /\ call.ret = SuffixArray(elems)
        /\ ComputeSa(elems) = ComputeSaIS(elems)

(***************************************************************************)
(* SpecAdd: the helper Add(a, b, as) of struct/big_int.h called on any two *)
(* magnitudes (non-empty limb vectors, not necessarily trimmed) with any   *)
(* shift x = as; res.val is the vector returned.                           *)
(***************************************************************************)
MaxShift == 2        \* greatest shift as

Magnitudes ==
    {[val |-> q, sig |-> 0] : q \in SeqsUpTo(MulLimbVals, MaxLimbs) \ {<<>>}}

InitAdd ==
    /\ a \in Magnitudes /\ b \in Magnitudes /\ x \in 0 .. MaxShift
    /\ s = <<>> /\ t = <<>> /\ c = BigIntDefault
    /\ res = BigIntDefault /\ out = <<>> /\ flags = NoFlags
    /\ fault = "none" /\ src = "magnitude" /\ op = "init" /\ steps = 0
    /\ StructIdle

\* res.val = Add(a.val, b.val, x); memcpy reads x limbs of b.val
DoAdd ==
    /\ op = "init"
    /\ \E g \in Garbage : res' = [val |-> Add(a.val, b.val, x, g), sig |-> 0]
    /\ fault' = IF x <= Len(b.val) THEN fault ELSE "out_of_bounds_read"
    /\ op' = "add"
    /\ UNCHANGED <<s, t, x, a, b, c, out, flags, src, steps, structVars>>

SpecAdd == InitAdd /\ [][DoAdd]_vars

\* C23: Add(a, b, shift) returns the magnitude a + b * base^shift for all
\* magnitudes a and b and every shift >= 0: the second operand is the one
\* shifted left by shift limbs, and the result is exact also when the operand
\* that is not shifted has fewer than shift limbs.
C23_ShiftedSum ==
    op = "add" =>
        LimbValue(res.val)
            = LimbValue(a.val) + LimbValue(b.val) * Pow10(LimbDigits * x)

\* What Add computes when its reads stay inside b: the FIRST operand shifted
\* left by x limbs plus the second.
AddShiftsFirst ==
    (op = "add" /\ fault = "none") =>
        LimbValue(res.val)
            = LimbValue(a.val) * Pow10(LimbDigits * x) + LimbValue(b.val)

(***************************************************************************)
(* The calls of Sub.  SubBorrow is the carry that the loop of Sub leaves   *)
(* after the last limb of its first operand: 0, or -1 when a borrow is     *)
(* still owed.                                                             *)
(***************************************************************************)
RECURSIVE SubBorrow(_, _, _, _)
SubBorrow(p, q, i, carry) ==
    IF i >= Len(p) THEN carry
    ELSE LET cy == carry + (p[i + 1] - (IF i < Len(q) THEN q[i + 1] ELSE 0))
         IN  SubBorrow(p, q, i + 1, IF cy < 0 THEN -1 ELSE 0)

\* Sub(p, q) is called with p >= q: no borrow is left and q has no limb that
\* the loop does not reach
SubOrdered(p, q) ==
    /\ SubBorrow(p, q, 0, 0) = 0
    /\ \A i \in (Len(p) + 1) .. Len(q) : q[i] = 0

\* Whether every call of Sub that u + v and u - v make has ordered operands;
\* the two follow the branches of operator+ and operator-.
RECURSIVE PlusSubOrdered(_, _), MinusSubOrdered(_, _)
PlusSubOrdered(u, v) ==
    IF u.sig # v.sig THEN MinusSubOrdered(u, FlipSig(v))
    ELSE TRUE

MinusSubOrdered(u, v) ==
    IF u.sig # v.sig THEN PlusSubOrdered(u, FlipSig(v))
    ELSE IF (u.sig = 0 /\ Less(u, v)) \/ (u.sig = 1 /\ Greater(u, v))
    THEN MinusSubOrdered(v, u)
    ELSE SubOrdered(u.val, v.val)

\* Whether every call of Sub that Multiply(p0, q0) makes, at any depth of its
\* recursion, has ordered operands; g is the limb that a read past the end of
\* a vector yields.
RECURSIVE MultiplySubOrdered(_, _, _)
MultiplySubOrdered(p0, q0, g) ==
    LET p1 == PopZeros(p0, 0)
        q1 == PopZeros(q0, 0)
        p == IF Len(p1) < Len(q1) THEN q1 ELSE p1
        q == IF Len(p1) < Len(q1) THEN p1 ELSE q1
        al == Len(p)
        bl == Len(q)
    IN IF bl <= 2 THEN TRUE
       ELSE LET l == al \div 2
                hb == bl - l
            IN IF hb <= 0
               THEN /\ MultiplySubOrdered(SubSeq(p, l + 1, al), q, g)
                    /\ MultiplySubOrdered(SubSeq(p, 1, l), q, g)
               ELSE LET ah_x_bh == Multiply(SubSeq(p, l + 1, al), SubSeq(q, l + 1, bl), g)
                        al_x_bl == Multiply(SubSeq(p, 1, l), SubSeq(q, 1, l), g)
                        ah_p_al == Add(SubSeq(p, l + 1, al), SubSeq(p, 1, l), 0, g)
                        bh_p_bl == Add(SubSeq(q, l + 1, bl), SubSeq(q, 1, l), 0, g)
                    IN /\ MultiplySubOrdered(SubSeq(p, l + 1, al), SubSeq(q, l + 1, bl), g)
                       /\ MultiplySubOrdered(SubSeq(p, 1, l), SubSeq(q, 1, l), g)
                       /\ MultiplySubOrdered(ah_p_al, bh_p_bl, g)
                       /\ SubOrdered(Multiply(ah_p_al, bh_p_bl, g),
                                     Add(ah_x_bh, al_x_bl, 0, g))

(***************************************************************************)
(* SpecSub: a - b for canonical a and b of at most MaxLimbs limbs, and     *)
(* a * b for these and for longer operands with few non-zero limbs, which  *)
(* take Multiply through its Karatsuba steps.  fault records a call of Sub *)
(* that left a borrow.                                                     *)
(***************************************************************************)
MaxKaraLimbs == 7    \* longest operand of the Karatsuba steps

\* limbs 0 .. n-1 all zero but the top one and at most one more, which are 1
SparseOperands ==
    {[val |-> [i \in 1 .. n |-> IF i = n \/ i = k THEN 1 ELSE 0], sig |-> 0] :
        n \in 3 .. MaxKaraLimbs, k \in 1 .. MaxKaraLimbs}

InitSub ==
    /\ \/ a \in Canonicals(MaxLimbs) /\ b \in Canonicals(MaxLimbs)
       \/ a \in SparseOperands /\ b \in SparseOperands
    /\ s = <<>> /\ t = <<>> /\ x = 0 /\ c = BigIntDefault
    /\ res = BigIntDefault /\ out = <<>> /\ flags = NoFlags
    /\ fault = "none" /\ src = "canonical" /\ op = "init" /\ steps = 0
    /\ StructIdle

\* res = a - b
DoMinusSub ==
    /\ op = "init"
    /\ res' = Minus(a, b)
    /\ fault' = IF MinusSubOrdered(a, b) THEN fault ELSE "borrow_left"
    /\ op' = "minus"
    /\ UNCHANGED <<s, t, x, a, b, c, out, flags, src, steps, structVars>>

\* res = a * b
DoTimesSub ==
    /\ op = "init"
    /\ \E g \in Garbage :
           /\ res' = Times(a, b, g)
           /\ fault' = IF MultiplySubOrdered(a.val, b.val, g) THEN fault
                       ELSE "borrow_left"
    /\ op' = "times"
    /\ UNCHANGED <<s, t, x, a, b, c, out, flags, src, steps, structVars>>

NextSub ==
    \/ DoMinusSub
    \/ DoTimesSub

SpecSub == InitSub /\ [][NextSub]_vars

\* C24: at every call of Sub(p, q) made by operator- on canonical operands and
\* by the balanced Karatsuba step of Multiply, p >= q in magnitude, so that no
\* borrow is left after the last limb and the result is the exact difference:
\* in the Karatsuba step (A1+A0)*(B1+B0) - (A1*B1 + A0*B0) is never negative.
C24_SubOrdered == op \in {"minus", "times"} => fault # "borrow_left"

\* the part of C24 about operator-
MinusSubsOrdered == op = "minus" => fault # "borrow_left"

(***************************************************************************)
(* The limb-level steps at the width of the source.  Here a limb has its   *)
(* 9 decimal digits (base = 1e9, NativeBase) and T is the 32-bit int.  A   *)
(* value of the 64-bit accumulator of the schoolbook rows is held as a     *)
(* "wide" number: the sequence of its base-1000 digits, least significant  *)
(* first, without most-significant zeros (zero is the empty sequence), so  *)
(* that no intermediate of the model leaves the range of its own integers. *)
(***************************************************************************)
NativeBase == Pow10(9)

Chunk == Pow10(3)

\* the largest int
Int32Max == (Pow2(30) - 1) + Pow2(30)

RECURSIVE WideCarry(_, _)
WideCarry(cols, carry) ==
    IF cols = <<>>
    THEN IF carry = 0 THEN <<>>
         ELSE <<carry % Chunk>> \o WideCarry(<<>>, carry \div Chunk)
    ELSE <<(cols[1] + carry) % Chunk>>
             \o WideCarry(Tail(cols), (cols[1] + carry) \div Chunk)

Wide(n) == PopZeros(WideCarry(<<n>>, 0), 0)

WideAdd(u, v) ==
    PopZeros(WideCarry([k \in 1 .. Max(Len(u), Len(v)) |->
                           (IF k <= Len(u) THEN u[k] ELSE 0)
                               + (IF k <= Len(v) THEN v[k] ELSE 0)], 0), 0)

RECURSIVE WideColumn(_, _, _, _)
WideColumn(u, v, k, i) ==
    IF i > Len(u) THEN 0
    ELSE (IF k - i >= 1 /\ k - i <= Len(v) THEN u[i] * v[k - i] ELSE 0)
             + WideColumn(u, v, k, i + 1)

WideMul(u, v) ==
    IF u = <<>> \/ v = <<>> THEN <<>>
    ELSE PopZeros(WideCarry([k \in 1 .. (Len(u) + Len(v) - 1) |->
                                WideColumn(u, v, k + 1, 1)], 0), 0)

WideLess(u, v) ==
    IF Len(u) # Len(v) THEN Len(u) < Len(v)
    ELSE LET i == FirstDiff(u, v, Len(u))
         IN  i # 0 /\ u[i] < v[i]

WideMax(u, v) == IF WideLess(u, v) THEN v ELSE u

\* 2^63, what lies just beyond the largest int64_t
Int64Limit ==
    WideMul(Wide(Pow2(21)), WideMul(Wide(Pow2(21)), Wide(Pow2(21))))

\* the number of base-1000 digits that make one limb
LimbChunks == Len(Wide(NativeBase)) - 1

\* carry stays as it is where the source divides it by base
WideQuotKept(u) == u

\* carry /= base
WideQuot(u) == SubSeq(u, LimbChunks + 1, Len(u))

\* One schoolbook row of Multiply, lines 86-92 (and 94-100): the 64-bit
\* carry after the loop and the greatest value it took within the loop.
RECURSIVE RowLoop(_, _, _, _)
RowLoop(p, d, i, st) ==
    IF i >= Len(p) THEN st
    ELSE Then(WideAdd(st.carry, WideMul(Wide(p[i + 1]), Wide(d))),
         LAMBDA acc :
             RowLoop(p, d, i + 1,
                     [carry |-> WideQuot(acc), peak |-> WideMax(st.peak, acc)]))

\* the rows of the base case (bl <= 2), one after the other
RECURSIVE Rows(_, _, _)
Rows(p, q, j) ==
    IF j > Len(q) THEN <<>>
    ELSE Then(RowLoop(p, q[j], 0, [carry |-> <<>>, peak |-> <<>>]),
         LAMBDA r : <<r>> \o Rows(p, q, j + 1))

\* The loop of Add, lines 58-63, with T = int and base = 1e9: the least and
\* the greatest value that carry takes.
RECURSIVE AddCarries(_, _, _, _, _)
AddCarries(p, q, as, i, st) ==
    IF i >= Max(Len(p), Len(q)) THEN st
    ELSE LET c1 == st.carry + (IF i < Len(p) THEN p[i + 1] ELSE 0)
             c2 == c1 + (IF i + as < Len(q) THEN q[i + as + 1] ELSE 0)
         IN  Then([carry |-> CDiv(c2, NativeBase),
                   lo |-> IF c1 < st.lo THEN c1 ELSE st.lo,
                   hi |-> Max(st.hi, c2)],
                  LAMBDA st1 : AddCarries(p, q, as, i + 1, st1))

\* The loop of Sub, lines 38-48.
RECURSIVE SubCarries(_, _, _, _)
SubCarries(p, q, i, st) ==
    IF i >= Len(p) THEN st
    ELSE LET cy == st.carry + (p[i + 1] - (IF i < Len(q) THEN q[i + 1] ELSE 0))
         IN  Then([carry |-> IF cy < 0 THEN -1 ELSE 0,
                   lo |-> IF cy < st.lo THEN cy ELSE st.lo,
                   hi |-> Max(st.hi, IF cy < 0 THEN cy + NativeBase ELSE cy)],
                  LAMBDA st1 : SubCarries(p, q, i + 1, st1))

(***************************************************************************)
(* SpecLimb: limb vectors a.val and b.val of 1 .. MaxLimbs limbs, every    *)
(* limb in [0, 1e9), go through the schoolbook rows, through Add with the  *)
(* shift x, or through Sub.  t is the list of the rows' records (carry     *)
(* left, greatest accumulator); flags is the record of the int carry of    *)
(* Add or Sub (carry left, least and greatest value).                      *)
(***************************************************************************)
NativeLimbs == {0, 1, NativeBase \div 2, NativeBase - 1}

NativeOperands ==
    {[val |-> q, sig |-> 0] : q \in SeqsUpTo(NativeLimbs, MaxLimbs) \ {<<>>}}

InitLimb ==
    /\ a \in NativeOperands /\ b \in NativeOperands /\ x \in {0, 1}
    /\ s = <<>> /\ t = <<>> /\ c = BigIntDefault
    /\ res = BigIntDefault /\ out = <<>> /\ flags = NoFlags
    /\ fault = "none" /\ src = "limbs" /\ op = "init" /\ steps = 0
    /\ StructIdle

DoRows ==
    /\ op = "init"
    /\ t' = Rows(a.val, b.val, 1)
    /\ op' = "rows"
    /\ UNCHANGED <<s, x, a, b, c, res, out, flags, fault, src, steps, structVars>>

DoAddCarries ==
    /\ op = "init"
    /\ flags' = AddCarries(a.val, b.val, x, 0, [carry |-> 0, lo |-> 0, hi |-> 0])
    /\ op' = "add"
    /\ UNCHANGED <<s, t, x, a, b, c, res, out, fault, src, steps, structVars>>

DoSubCarries ==
    /\ op = "init"
    /\ flags' = SubCarries(a.val, b.val, 0, [carry |-> 0, lo |-> 0, hi |-> 0])
    /\ op' = "sub"
    /\ UNCHANGED <<s, t, x, a, b, c, res, out, fault, src, steps, structVars>>

NextLimb ==
    \/ DoRows
    \/ DoAddCarries
    \/ DoSubCarries

SpecLimb == InitLimb /\ [][NextLimb]_vars

\* C25: with every input limb in [0, 1e9) no limb-level step overflows: in the
\* schoolbook rows the 64-bit carry + a[i] * b[j] stays below 2^63 and the
\* carry left after the loop is below base; in Add and Sub the int carry is
\* at most 2 * (base - 1) + 1 and at least -base, inside the 32-bit range.
C25_NoOverflow ==
    /\ op = "rows" =>
           \A j \in 1 .. Len(t) :
               /\ WideLess(t[j].peak, Int64Limit)
               /\ WideLess(t[j].carry, Wide(NativeBase))
    /\ op \in {"add", "sub"} =>
           /\ flags.hi <= 2 * (NativeBase - 1) + 1
           /\ flags.lo >= 0 - NativeBase
           /\ 2 * (NativeBase - 1) + 1 <= Int32Max
           /\ 0 - NativeBase >= (0 - Int32Max) - 1

\* a row of two limbs base - 1 times the limb base - 1: the accumulator
\* reaches (base - 1)^2 + (base - 2), the most it can hold
C25_Witness ==
    /\ op = "rows" /\ Len(a.val) = 2
    /\ \E j \in 1 .. Len(t) :
           /\ t[j].carry = Wide(NativeBase - 2)
           /\ t[j].peak = WideAdd(WideMul(Wide(NativeBase - 1), Wide(NativeBase - 1)),
                                  Wide(NativeBase - 2))

(***************************************************************************)
(* The chains of nested calls of operator+, operator- and operator*.  The  *)
(* state is one call of a chain: op is the function that runs ("plus",     *)
(* "minus", "times", "multiply", or "returned" once a call has come to the *)
(* branch that calls nothing), a and b are its operands, steps the number  *)
(* of calls nested inside the operator named by src, c the first operand   *)
(* of the caller and x the call taken of a Karatsuba step (1 the high      *)
(* halves, 2 the low halves, 3 the sums).  What a call does besides        *)
(* calling (the loops of Add, Sub and of the schoolbook rows) is bounded   *)
(* by the lengths of its operands.                                         *)
(***************************************************************************)
MaxDepth == 5        \* nested calls followed

\* operator-, line 275: the operands are exchanged
SwapsAlways(u, v) == TRUE

Swaps(u, v) == (u.sig = 0 /\ Less(u, v)) \/ (u.sig = 1 /\ Greater(u, v))

\* The nested call operator+ or operator- makes: <<>> when it makes none,
\* else <<function, first operand, second operand>>.
NestedCall(fn, u, v) ==
    IF u.sig # v.sig
    THEN <<IF fn = "plus" THEN "minus" ELSE "plus", u, FlipSig(v)>>
    ELSE IF fn = "minus" /\ Swaps(u, v) THEN <<"minus", v, u>>
    ELSE <<>>

\* The recursive calls Multiply(p0, q0) makes, as <<which, a, b>>.
RecursiveCalls(p0, q0) ==
    LET p1 == PopZeros(p0, 0)
        q1 == PopZeros(q0, 0)
        p == IF Len(p1) < Len(q1) THEN q1 ELSE p1
        q == IF Len(p1) < Len(q1) THEN p1 ELSE q1
        al == Len(p)
        bl == Len(q)
        l == al \div 2
    IN IF bl <= 2 THEN {}
       ELSE IF bl - l <= 0
       THEN {<<1, SubSeq(p, l + 1, al), q>>, <<2, SubSeq(p, 1, l), q>>}
       ELSE {<<1, SubSeq(p, l + 1, al), SubSeq(q, l + 1, bl)>>,
             <<2, SubSeq(p, 1, l), SubSeq(q, 1, l)>>,
             <<3, Add(SubSeq(p, l + 1, al), SubSeq(p, 1, l), 0, 0),
                  Add(SubSeq(q, l + 1, bl), SubSeq(q, 1, l), 0, 0)>>}

ChainOperands ==
    {[val |-> q, sig |-> g] : q \in SeqsUpTo(MulLimbVals, MaxLimbs), g \in {0, 1}}

ChainFactors ==
    {[val |-> q, sig |-> 0] : q \in SeqsUpTo(MulLimbVals, MaxLimbs + 1) \ {<<>>}}

InitCalls ==
    /\ \/ /\ src \in {"plus", "minus"}
          /\ a \in ChainOperands /\ b \in ChainOperands
       \/ /\ src = "times"
          /\ a \in ChainFactors /\ b \in ChainFactors
    /\ op = src /\ steps = 0 /\ x = 0 /\ c = BigIntDefault
    /\ s = <<>> /\ t = <<>> /\ res = BigIntDefault /\ out = <<>>
    /\ flags = NoFlags /\ fault = "none"
    /\ StructIdle

\* operator+ or operator- calls the other, or operator- calls itself
CallSigned ==
    /\ op \in {"plus", "minus"} /\ steps < MaxDepth
    /\ NestedCall(op, a, b) # <<>>
    /\ op' = NestedCall(op, a, b)[1]
    /\ a' = NestedCall(op, a, b)[2]
    /\ b' = NestedCall(op, a, b)[3]
    /\ c' = a
    /\ steps' = steps + 1
    /\ UNCHANGED <<s, t, x, res, out, flags, fault, src, structVars>>

\* operator* calls Multiply(val, b.val)
CallMultiply ==
    /\ op = "times" /\ steps < MaxDepth
    /\ op' = "multiply"
    /\ c' = a
    /\ steps' = steps + 1
    /\ UNCHANGED <<s, t, x, a, b, res, out, flags, fault, src, structVars>>

\* Multiply calls itself
CallRecursive ==
    /\ op = "multiply" /\ steps < MaxDepth
    /\ \E call1 \in RecursiveCalls(a.val, b.val) :
           /\ x' = call1[1]
           /\ a' = [val |-> call1[2], sig |-> 0]
           /\ b' = [val |-> call1[3], sig |-> 0]
    /\ c' = a
    /\ steps' = steps + 1
    /\ UNCHANGED <<s, t, res, out, flags, fault, src, op, structVars>>

\* the call calls nothing: Add or Sub, or the base case of Multiply
ReturnSigned ==
    /\ op \in {"plus", "minus"}
    /\ NestedCall(op, a, b) = <<>>
    /\ op' = "returned"
    /\ UNCHANGED <<s, t, x, a, b, c, res, out, flags, fault, src, steps, structVars>>

ReturnMultiply ==
    /\ op = "multiply"
    /\ RecursiveCalls(a.val, b.val) = {}
    /\ op' = "returned"
    /\ UNCHANGED <<s, t, x, a, b, c, res, out, flags, fault, src, steps, structVars>>

NextCalls ==
    \/ CallSigned
    \/ CallMultiply
    \/ CallRecursive
    \/ ReturnSigned
    \/ ReturnMultiply

SpecCalls == InitCalls /\ [][NextCalls]_vars

\* A call that can go on does go on: the code is one sequential computation.
SpecCallsFair == SpecCalls /\ WF_vars(NextCalls)

\* C26: every call of operator+, operator- and operator* terminates: operator+
\* and operator- call each other at most two calls deep, and every chain of
\* recursive Multiply calls comes to the base case (the shorter operand of
\* at most 2 limbs), also through the call on the sums (A1+A0, B1+B0).
C26_Terminates ==
    /\ <>(op = "returned")
    /\ [](src \in {"plus", "minus"} => steps <= 2)
    /\ []((op = "returned" /\ src = "times") =>
              (Len(PopZeros(a.val, 0)) <= 2 \/ Len(PopZeros(b.val, 0)) <= 2))

\* the sums of two 3-limb operands have 3 limbs again, and Multiply is called
\* on them
C26_Witness ==
    /\ src = "times" /\ op = "multiply" /\ x = 3
    /\ Len(PopZeros(c.val, 0)) = 3
    /\ Len(PopZeros(a.val, 0)) = 3 /\ Len(PopZeros(b.val, 0)) = 3

(***************************************************************************)
(* PowInt(x, n), one pass of its second loop per step: the value is a, the *)
(* exponent is x, the mask i is steps, op is "loop" while the second loop  *)
(* runs and "pow" after the return.                                        *)
(***************************************************************************)
InitPowLoop ==
    /\ a \in PowOperands /\ x \in 0..(Pow2(UintBits) - 1)
    /\ s = <<>> /\ t = <<>> /\ b = BigIntDefault /\ c = BigIntDefault
    /\ res = BigIntDefault /\ out = <<>> /\ flags = NoFlags
    /\ fault = "none" /\ src = "canonical" /\ op = "init" /\ steps = 0 /\ StructIdle

\* uint32_t i = 1; for (auto t = n; t; t /= 2, i *= 2); res = 1
EnterPowLoop ==
    /\ op = "init"
    /\ steps' = MaskLoop(x, 1)
    /\ res' = BigIntFromInt(1)
    /\ op' = "loop"
    /\ UNCHANGED <<s, t, x, a, b, c, out, flags, fault, src, structVars>>

\* res *= res; if (n & i) res *= x; i /= 2
PowLoopPass ==
    /\ op = "loop" /\ steps # 0
    /\ \E g \in Garbage :
           res' = IF BitSet(x, steps) THEN Times(Times(res, res, g), a, g)
                  ELSE Times(res, res, g)
    /\ steps' = steps \div 2
    /\ UNCHANGED <<s, t, x, a, b, c, out, flags, fault, src, op, structVars>>

\* i is 0: return res
LeavePowLoop ==
    /\ op = "loop" /\ steps = 0
    /\ op' = "pow"
    /\ UNCHANGED <<s, t, x, a, b, c, res, out, flags, fault, src, steps, structVars>>

NextPowLoop ==
    \/ EnterPowLoop
    \/ PowLoopPass
    \/ LeavePowLoop

SpecPowLoop == InitPowLoop /\ [][NextPowLoop]_vars

\* the highest power of two not above n (n >= 1)
RECURSIVE HighestBit(_)
HighestBit(n) == IF n <= 1 THEN 1 ELSE 2 * HighestBit(n \div 2)

\* C27: for every exponent n >= 1 PowInt enters its second loop with the mask
\* i at the highest power of two not above n, and each pass squares res and
\* multiplies it by x exactly when the bit of n under the mask is set.
C27_MaskAtEntry ==
    [][/\ (op = "init" /\ op' = "loop" /\ x >= 1) => steps' = HighestBit(x)
       /\ (op = "loop" /\ op' = "loop") =>
              \E g \in Garbage :
                  res' = IF BitSet(x, steps) THEN Times(Times(res, res, g), a, g)
                         ELSE Times(res, res, g)]_vars

\* the passes themselves are as described, and below the wrap of the mask
\* the loop is entered one bit above the highest bit of n
PowLoopFromNextBit ==
    [][/\ (op = "init" /\ op' = "loop" /\ 1 <= x /\ x < Pow2(UintBits - 1)) =>
              steps' = 2 * HighestBit(x)
       /\ (op = "init" /\ op' = "loop" /\ x >= Pow2(UintBits - 1)) => steps' = 0
       /\ (op = "loop" /\ op' = "loop") =>
              \E g \in Garbage :
                  res' = IF BitSet(x, steps) THEN Times(Times(res, res, g), a, g)
                         ELSE Times(res, res, g)]_vars

(***************************************************************************)
(* The form of the values +, - and * return for canonical operands.  For   *)
(* * the vector Multiply returns to operator* is kept in t.                *)
(***************************************************************************)
FormOperands ==
    {v \in {[val |-> q, sig |-> g] : q \in SeqsUpTo(MulLimbVals, MaxLimbs + 1), g \in {0, 1}} :
        IsCanonical(v)}

InitForm ==
    /\ a \in FormOperands /\ b \in FormOperands
    /\ s = <<>> /\ t = <<>> /\ x = 0 /\ c = BigIntDefault
    /\ res = BigIntDefault /\ out = <<>> /\ flags = NoFlags
    /\ fault = "none" /\ src = "canonical" /\ op = "init" /\ steps = 0 /\ StructIdle

\* res = a * b
DoTimesTrim ==
    /\ op = "init"
    /\ \E g \in Garbage :
           /\ t' = Multiply(a.val, b.val, g)
           /\ res' = Times(a, b, g)
    /\ op' = "times"
    /\ UNCHANGED <<s, x, a, b, c, out, flags, fault, src, steps, structVars>>

NextForm ==
    \/ DoPlus
    \/ DoMinus
    \/ DoTimesTrim

SpecForm == InitForm /\ [][NextForm]_vars

\* Trimmed and sign-normalized: no most-significant zero limb unless the
\* magnitude is [0], and the sign flag clear when the magnitude is [0].
TrimmedForm(v) ==
    /\ Len(v.val) >= 1
    /\ (v.val[Len(v.val)] = 0 => v.val = <<0>>)
    /\ (v.val = <<0>> => v.sig = 0)

\* C28: for canonical a and b the values a + b, a - b and a * b return are in
\* canonical form, also when the vector Multiply returns to operator* ends in
\* zero limbs.
C28_CanonicalResults == op \in {"plus", "minus", "times"} => TrimmedForm(res)

\* Multiply returned a vector of a non-zero product that ends in a zero limb,
\* and operator* trimmed it
C28_Witness ==
    /\ op = "times"
    /\ Len(t) > 1 /\ t[Len(t)] = 0 /\ t[1] # 0
    /\ Len(res.val) < Len(t)

(***************************************************************************)
(* SpecMultiSet: a DynOrderMultiSet driven by any sequence of Insert and   *)
(* Remove calls.  keys is the set of the keys held and elems the sequence  *)
(* of the calls made, each as <<function, key>>.  The size fields of a     *)
(* multiset can drift without limit, so the sequences are cut at MaxCalls  *)
(* calls.                                                                  *)
(***************************************************************************)
MaxCalls == 5        \* longest sequence of Insert and Remove calls
NumMultiKeys == 3    \* keys of the multiset are 0 .. NumMultiKeys - 1

MultiKeys == 0 .. (NumMultiKeys - 1)

(* DynOrderMultiSet::Insert *)
DynOrderMultiSetInsert(tr, key) ==
    Then(Descend(tr, RB_NULL, "root", key), LAMBDA at :
    Then([tr EXCEPT !.size = @ + 1], LAMBDA t1 :
    Then(AdjustAncestors(t1, at.p, 1), LAMBDA t2 :
        IF at.node # RB_NULL
        THEN Store(t2, at.node, "cnt", t2.nodes[at.node].cnt + 1)
        ELSE Then(Attach(t2, at, RBONode(key, RB_NULL, RB_NULL, at.p)),
                  LAMBDA t3 : InsertFuxup(t3, NewAddr(key))))))

InitMultiSet ==
    /\ tree \in {RBTree("DynOrderMultiSet", cm) : cm \in {"less", "greater"}}
    /\ keys = {}
    /\ elems = <<>>
    /\ call = Called("ctor", 0, 0, 0)
    /\ ft = "none"
    /\ BigIntIdle

DoMultiSetInsert ==
    /\ Len(elems) < MaxCalls
    /\ \E k \in MultiKeys :
        /\ tree' = DynOrderMultiSetInsert(tree, k)
        /\ keys' = keys \cup {k}
        /\ elems' = Append(elems, <<"Insert", k>>)
        /\ call' = Called("Insert", k, 0, 0)
        /\ UNCHANGED <<ft, bigIntVars>>

DoMultiSetRemove ==
    /\ Len(elems) < MaxCalls
    /\ \E k \in MultiKeys :
        LET r == MultiRemove(tree, k)
        IN  /\ tree' = r.tree
            /\ keys' = keys \ {k}
            /\ elems' = Append(elems, <<"Remove", k>>)
            /\ call' = Called("Remove", k, r.ret, 0)
            /\ UNCHANGED <<ft, bigIntVars>>

DoMultiSetHealthCheck ==
    /\ call.fn # "HealthCheck"
    /\ call' = Called("HealthCheck", 0, HealthCheck(tree), 0)
    /\ UNCHANGED <<tree, keys, ft, elems, bigIntVars>>

NextMultiSet ==
    \/ DoMultiSetInsert
    \/ DoMultiSetRemove
    \/ DoMultiSetHealthCheck

SpecMultiSet == InitMultiSet /\ [][NextMultiSet]_vars

(* C29: after any sequence of Insert and Remove calls on a                 *)
(* DynOrderMultiSet, the Insert of a key already held and the Remove of a  *)
(* key held more than once included, every node's size is the size of its  *)
(* left subtree plus that of its right subtree plus its own count, the     *)
(* root's size is Size(), and HealthCheck() returns true.                  *)
C29_MultiSetHealthy ==
    /\ SizeFieldsAddUp(tree)
    /\ tree.nodes[tree.root].size = Size(tree)
    /\ HealthCheck(tree)
    /\ call.fn = "HealthCheck" => call.ret = TRUE

(***************************************************************************)
(* strStrKMP (src/algo/string_algo.h).  A text and a pattern are sequences *)
(* of items, read with the 0-based At; pi is the vector<int> of the        *)
(* function, zero-filled by its constructor.                               *)
(***************************************************************************)
MaxHay == 4          \* longest text searched; patterns are up to one item longer

(* while (i < m) { if (s[k] == s[i]) pi[i++] = ++k;                        *)
(*                 else if (k > 0) k = pi[k - 1]; else ++i; }              *)
RECURSIVE PiLoop(_, _, _, _, _)
PiLoop(pat, m, pi, k, i) ==
    IF i < m
    THEN IF At(pat, k) = At(pat, i) THEN PiLoop(pat, m, Put(pi, i, k + 1), k + 1, i + 1)
         ELSE IF k > 0 THEN PiLoop(pat, m, pi, At(pi, k - 1), i)
         ELSE PiLoop(pat, m, pi, k, i + 1)
    ELSE pi

(* for (k = 0, i = 0; i < n; ) { if (s[k] == text[i]) {                    *)
(*    if (k++ == m) return i - m; i++; }                                   *)
(*    else if (k > 0) k = pi[k - 1]; else ++i; } return -1;                *)
RECURSIVE SearchLoop(_, _, _, _, _, _)
SearchLoop(text, pat, m, pi, k, i) ==
    IF i < Len(text)
    THEN IF At(pat, k) = At(text, i)
         THEN IF k = m THEN i - m
              ELSE SearchLoop(text, pat, m, pi, k + 1, i + 1)
         ELSE IF k > 0 THEN SearchLoop(text, pat, m, pi, At(pi, k - 1), i)
         ELSE SearchLoop(text, pat, m, pi, k, i + 1)
    ELSE -1

strStrKMP(text, pat) ==
    IF Len(pat) = 0 THEN 0
    ELSE IF Len(pat) >= Len(text) THEN -1
    ELSE LET m == Len(pat) - 1
             pi == PiLoop(pat, m, [i \in 1 .. m |-> 0], 0, 1)
         IN  SearchLoop(text, pat, m, pi, 0, 0)

HayItems == {0, 1}

InitSearch ==
    /\ elems \in {[text |-> u, s |-> v] : u \in SeqsUpTo(HayItems, MaxHay),
                                          v \in SeqsUpTo(HayItems, MaxHay + 1)}
    /\ call = Called("none", 0, 0, 0)
    /\ AlgoIdle

DoStrStrKMP ==
    /\ call.fn = "none"
    /\ call' = Called("strStrKMP", elems, strStrKMP(elems.text, elems.s), 0)
    /\ UNCHANGED <<tree, keys, ft, elems, bigIntVars>>

SpecSearch == InitSearch /\ [][DoStrStrKMP]_vars

(* The places (0-based) where pat occurs in text. *)
OccursAt(text, pat) ==
    {j \in 0 .. (Len(text) - Len(pat)) : SubSeq(text, j + 1, j + Len(pat)) = pat}

StrStr(text, pat) ==
    IF Len(pat) = 0 THEN 0
    ELSE IF OccursAt(text, pat) = {} THEN -1
    ELSE CHOOSE j \in OccursAt(text, pat) : \A h \in OccursAt(text, pat) : j <= h

(* C30: for every text of length n and pattern of length m, strStrKMP      *)
(* returns 0 when m = 0, else the smallest index at which the pattern      *)
(* occurs in the text, and -1 when it does not occur; when m = n the       *)
(* result is 0 exactly when the pattern is the text.                       *)
C30_FirstOccurrence ==
    call.fn = "strStrKMP" => call.ret = StrStr(call.arg.text, call.arg.s)

(* For a pattern shorter or longer than the text the result is as claimed. *)
FirstOccurrenceOffLength ==
    (call.fn = "strStrKMP" /\ Len(call.arg.s) # Len(call.arg.text)) =>
        call.ret = StrStr(call.arg.text, call.arg.s)

=============================================================================
